---- MODULE Spec2Model ----
(***************************************************************************)
(* Model of the export synchronisation core of inv_agents:                 *)
(*   - api/admin/sync_service.py : SyncLockManager and the two SSE stream  *)
(*     generators (request lock, stream life cycle, export worker thread); *)
(*   - api/admin/endpoints.py    : the two "start sync" handlers;          *)
(*   - script/export_invoice_data.py : StateManager (lock file, watermark  *)
(*     ledger) and InvoiceExporter (incremental and full export runs).     *)
(*                                                                         *)
(* Spec      : one server process, its request lock and its streams.       *)
(* SpecRun   : one exporting process, one incremental pass after another.  *)
(* SpecFull  : one exporting process, one full export after another.       *)
(* SpecProcs : several exporting processes on the same state directory.    *)
(***************************************************************************)
EXTENDS Integers, Sequences, FiniteSets, TLC

\* ------------------------------------------------------------------ bounds
\* Number of start requests that reach the server.
MaxReq == 3
\* Number of records in the source table.
MaxRecs == 2
\* Seconds the clock may advance past its initial value.
MaxClock == 2
\* Number of export runs started.
MaxRuns == 2
\* Number of processes that export into the same state directory.
MaxProcs == 2
\* Latest export_time a direct caller of update_export_time passes.
MaxStamp == 1

\* Number of events (log lines, progress ticks) the worker threads emit in a run.
MaxEmit == 3
\* Number of heartbeats a stream that is followed event by event yields.
MaxBeats == 1

\* Latest time, in tenths of a second after the loop was entered, at which
\* the worker falls silent.
MaxBusy == 300
\* The longest string of a request body.
MaxStr == 1
\* Calls of acquire_lock and release_lock that are followed, and lock files
\* that are created.
MaxCalls == 5
MaxInodes == 2
\* Lines of the ledger a run finds at startup.
MaxLedgerLines == 2
\* export_all thread by thread: worker count, groups, valid records of a group.
MaxThreads == 2
MaxGroups == 3
MaxValid == 1
\* Longest invoice number, in characters.
MaxNoLen == 2
\* Most valid records of the partition whose files are written.
MaxInvoices == 2
\* Agent streams, session ids, and the sessions that exist when the streams start.
MaxStreams == 2
MaxSids == 4
OldSessions == 2

\* sync_service.py, stream_invoice_sync, in tenths of a second: the timeout of
\* each wait_for, the sleep that ends an iteration, and the age of
\* last_heartbeat beyond which a heartbeat is sent.
LOG_WAIT == 1
PROGRESS_WAIT == 1
LOOP_SLEEP == 5
HEARTBEAT_AFTER == 300
\* The silent window of the heartbeat requirement: 35 seconds.
SILENT_WINDOW == 350

\* export_invoice_data.py: TIME_BUFFER_SECONDS
TIME_BUFFER_SECONDS == 300

\* ------------------------------------------------------ request lock (API)
VARIABLES
    locked,        \* SyncLockManager._locks: kind -> is the asyncio.Lock held
    current_sync,  \* SyncLockManager._current_sync: kind -> None or the run entry
    rpc,           \* request -> position of its handler / stream generator
    rkind,         \* request -> export kind it asked for
    worker,        \* request -> state of the thread started by asyncio.to_thread
    gexit,         \* request -> how its generator left the try block
    nAcquire,      \* request -> number of times it took the request lock
    nRelease,      \* request -> number of times its generator ran the release
    now            \* wall clock, in seconds

\* --------------------------------------------- export state (file system)
VARIABLES
    db,            \* t_invoice: the eligible rows (fissue_status = 3, fields present)
    ledger,        \* STATE_FILE (.last_export_time): [exists, lines]
    temp,          \* STATE_FILE.with_suffix('.tmp'): [exists, lines]
    backups,       \* .last_export_time.backup.<time>: set of [at, lines]
    lockFile,      \* LOCK_FILE (.export.lock) exists
    flockHolder,   \* process holding the flock on LOCK_FILE, 0 when nobody
    outFiles,      \* invoice files present under the output directory
    proc,          \* process -> its InvoiceExporter / StateManager and position
    runs,          \* number of runs started so far
    lastWritten,   \* tenant -> line of the last update_export_time that renamed
    lastRename     \* the last rename: its tenant, and whether it replaced a line

exportVars == <<db, ledger, temp, backups, lockFile, flockHolder, outFiles,
                proc, runs, lastWritten, lastRename>>

syncVars == <<locked, current_sync, rpc, rkind, worker, gexit, nAcquire, nRelease>>

\* ------------------------------------------- one stream, event by event
VARIABLES
    skind,          \* export kind of the stream
    gpc,            \* position of the stream generator
    task,           \* sync_task: "none", "running" or "done"
    result,         \* what the worker returned or raised, "none" before
    loopBound,      \* log_queue._loop is set (the queue is bound to the loop)
    log_queue,      \* asyncio.Queue of log entries
    progress_queue, \* asyncio.Queue of progress ticks
    emitted,        \* the events the worker threads emitted, in order
    events          \* the events the generator yielded, in order

relayVars == <<skind, gpc, task, result, loopBound, log_queue, progress_queue,
               emitted, events>>

\* ------------------------------------- the streaming loop, on the clock
VARIABLES
    clk,            \* time since the loop was entered, in tenths of a second
    last_heartbeat, \* the loop's last_heartbeat
    bpc,            \* position in the loop body
    silent_from,    \* when the worker fell silent, -1 before
    beats           \* heartbeats yielded since the worker fell silent

beatVars == <<clk, last_heartbeat, bpc, silent_from, beats>>

\* ------------------------------------------------------- status queries
VARIABLES
    status_reply    \* the last reply of get_sync_status

\* ------------------------------------------------------- agent queries
VARIABLES
    qreq,           \* the JSON body of a POST /api/query
    qresp           \* the response of query_agent, status_code 0 before

queryVars == <<qreq, qresp>>

\* ------------------------------------ StateManager's lock, called directly
VARIABLES
    lock_path,      \* inode of the file at LOCK_FILE, 0 when there is none
    inodes,         \* number of lock files created so far
    handle,         \* process -> its StateManager.lock_file and the inode it opened
    held,           \* the processes whose open handle holds the flock
    lcall           \* the last call of acquire_lock or release_lock and its outcome

lockVars == <<lock_path, inodes, handle, held, lcall>>

\* ------------------------------- export_all's thread pool, step by step
VARIABLES
    num_threads,    \* InvoiceExporter.num_threads
    pdry,           \* InvoiceExporter.dry_run
    pparts,         \* the groups: for each its number of valid records
    ptask,          \* group -> position and locals of its process_group call
    stats_lock,     \* InvoiceExporter.lock: the group whose call holds it, 0 for none
    pstats,         \* InvoiceExporter.stats
    completed_count,\* export_all's completed_count: results collected so far
    ppc             \* position of export_all

poolVars == <<num_threads, pdry, pparts, ptask, stats_lock, pstats, completed_count, ppc>>

\* ----------------------------- write_invoice_files, one partition's files
VARIABLES
    compress,           \* InvoiceExporter.compress
    winvoices,           \* the valid records of the partition, in query order
    country_dir,        \* names of the files in the partition's directory
    successful_count,   \* write_invoice_files' successful_count
    wfailed,            \* failed writes counted in stats['failed_files']
    wpc                 \* "none", "writing" or "returned"

fileVars == <<compress, winvoices, country_dir, successful_count, wfailed, wpc>>

\* --------------------------- the session registry and the agent streams
VARIABLES
    _sessions,      \* InMemorySessionManager._sessions: session id -> client, 0 when absent
    stream,         \* stream_response call -> its position and local variables
    issued,         \* number of session ids the SDK has given out
    interrupted     \* the last interrupt call: its session id and the client it found

sessVars == <<_sessions, stream, issued, interrupted>>

\* ------------------------------------------------- the ConfigManager
VARIABLES
    _current_config,    \* ConfigManager._current_config
    environ,            \* os.environ: key -> value, "" when absent or empty
    switch_ret          \* the last switch_config call: its argument and what it returned

cfgVars == <<_current_config, environ, switch_ret>>

moreVars == <<fileVars, sessVars, cfgVars>>

otherVars == <<queryVars, lockVars, poolVars, moreVars>>

auxVars == <<relayVars, beatVars, status_reply, otherVars>>

Kinds == {"basic-data", "invoices"}
Reqs == 1..MaxReq
None == [status |-> "none"]
\* JSON null, or a key that is absent from the body.
Null == <<"null">>

\* Positions at which a started generator is suspended (at a yield or an await).
Suspended == {"yield_started", "loop", "yield_completed", "yield_error"}
\* Positions at which a request owns a generator object that has not finished.
Live == {"created"} \cup Suspended

\* SyncLockManager.__init__
SyncInit ==
    /\ locked = [k \in Kinds |-> FALSE]
    /\ current_sync = [k \in Kinds |-> None]
    /\ rpc = [r \in Reqs |-> "idle"]
    /\ rkind = [r \in Reqs |-> "invoices"]
    /\ worker = [r \in Reqs |-> "none"]
    /\ gexit = [r \in Reqs |-> "none"]
    /\ nAcquire = [r \in Reqs |-> 0]
    /\ nRelease = [r \in Reqs |-> 0]

\* No status query has been answered yet.
NoReply == [asked |-> FALSE, basic_data |-> None, invoices |-> None]

\* No agent query has been received.
NoQuery == [tenant_id |-> Null, prompt |-> Null, language |-> Null,
            session_id |-> Null, country_code |-> Null, context |-> FALSE]
\* No response yet.
NoResponse == [status_code |-> 0]
QueryIdle == qreq = NoQuery /\ qresp = NoResponse

\* What acquire_lock and release_lock give their caller: the value returned
\* and the message logged, or the exception that leaves the call.
Acquired == [value |-> "True", log |-> "lock acquired"]
Refused == [value |-> "False", log |-> "another export process is running"]
Released == [value |-> "None", log |-> "lock released"]
Nothing == [value |-> "None", log |-> "none"]
RaisedValueError == [value |-> "ValueError", log |-> "none"]

\* StateManager.__init__: self.lock_file = None; no lock file, no call yet.
NoHandle == [st |-> "none", ino |-> 0]
NoCall == [n |-> 0, p |-> 0, op |-> "none", ret |-> Nothing, cause |-> "none"]
LockIdle ==
    /\ lock_path = 0 /\ inodes = 0 /\ held = {}
    /\ handle = [p \in 1..MaxProcs |-> NoHandle]
    /\ lcall = NoCall

\* InvoiceExporter.__init__: the counters of stats.
ZeroStats == [total_invoices |-> 0, successful_files |-> 0, failed_files |-> 0]
\* No full export is followed thread by thread.
PoolIdle ==
    /\ num_threads = 1 /\ pdry = FALSE /\ pparts = <<>> /\ ptask = <<>>
    /\ stats_lock = 0 /\ pstats = ZeroStats /\ completed_count = 0 /\ ppc = "none"

\* No partition's files are being written.
FileIdle ==
    /\ compress = FALSE /\ winvoices = <<>> /\ country_dir = {}
    /\ successful_count = 0 /\ wfailed = 0 /\ wpc = "none"

Streams == 1..MaxStreams
Sids == 1..MaxSids

\* A stream_response call that has not been made; request_sid 0 is a
\* request without session_id, registered_as is the id the call passed to
\* register.
NoStream ==
    [pc |-> "none", request_sid |-> 0, actual_session_id |-> 0,
     session_id_sent |-> FALSE, session_registered |-> FALSE, registered_as |-> 0]

NoInterrupt == [session_id |-> 0, client |-> 0]

\* No agent stream has been started; the sessions of earlier conversations
\* have their ids.
SessIdle ==
    /\ _sessions = [sid \in Sids |-> 0]
    /\ stream = [s \in Streams |-> NoStream]
    /\ issued = OldSessions
    /\ interrupted = NoInterrupt

\* The environment keys switch_config reads and writes.
ModelKeys == {"ANTHROPIC_MODEL", "ANTHROPIC_SMALL_FAST_MODEL", "ANTHROPIC_DEFAULT_SONNET_MODEL",
              "ANTHROPIC_DEFAULT_OPUS_MODEL", "ANTHROPIC_DEFAULT_HAIKU_MODEL"}
proxy_keys == {"https_proxy", "http_proxy", "HTTPS_PROXY", "HTTP_PROXY", "no_proxy", "NO_PROXY"}
ExtraKeys == {"CLAUDE_CODE_DISABLE_NONESSENTIAL_TRAFFIC", "DISABLE_TELEMETRY",
              "DISABLE_COST_WARNINGS"}
GivenKeys == {"GLM_AUTH_TOKEN", "CLAUDE_ROUTER_AUTH_TOKEN", "CLAUDE_ROUTER_PROXY"}
EnvKeys ==
    {"ANTHROPIC_BASE_URL", "ANTHROPIC_AUTH_TOKEN", "ANTHROPIC_API_KEY", "API_TIMEOUT_MS"}
        \cup ModelKeys \cup proxy_keys \cup ExtraKeys \cup GivenKeys

\* The model of this development does not look at the configuration.
CfgIdle ==
    /\ _current_config = "glm"
    /\ environ = [k \in EnvKeys |-> ""]
    /\ switch_ret = [config_name |-> "", returned |-> FALSE]

MoreIdle == FileIdle /\ SessIdle /\ CfgIdle

OtherIdle == QueryIdle /\ LockIdle /\ PoolIdle /\ MoreIdle

\* No stream is followed event by event, no loop is timed, no status asked.
StreamIdle ==
    /\ skind = "invoices" /\ gpc = "none" /\ task = "none" /\ result = "none"
    /\ loopBound = FALSE /\ log_queue = <<>> /\ progress_queue = <<>>
    /\ emitted = <<>> /\ events = <<>>
    /\ clk = 0 /\ last_heartbeat = 0 /\ bpc = "none" /\ silent_from = -1 /\ beats = 0
    /\ status_reply = NoReply

AuxIdle == StreamIdle /\ OtherIdle

\* SyncLockManager.acquire, the test "if not lock or lock.locked(): return False".
AcquireNoCheck(l, k) == TRUE
AcquireAllowed(l, k) == ~l[k]

\* SyncLockManager.release, the lock part: "if lock and lock.locked(): lock.release()".
ReleaseForgets(l, k) == l
ReleaseLocked(l, k) == [l EXCEPT ![k] = FALSE]

\* SyncLockManager.release as the generators' finally block calls it.
Release(k) ==
    /\ locked' = ReleaseLocked(locked, k)
    /\ current_sync' = [current_sync EXCEPT ![k] = None]

\* A start request for kind k reaches the server; its handler is scheduled.
Arrive(r, k) ==
    /\ rpc[r] = "idle"
    /\ rpc' = [rpc EXCEPT ![r] = "pending"]
    /\ rkind' = [rkind EXCEPT ![r] = k]
    /\ UNCHANGED <<locked, current_sync, worker, gexit, nAcquire, nRelease, now, auxVars, exportVars>>

\* sync_basic_data / sync_invoices. The handler runs without suspension:
\* "await lock.acquire()" on a free asyncio.Lock returns without yielding to
\* the event loop, so test and acquisition are one step of the loop.
Handle(r) ==
    /\ rpc[r] = "pending"
    /\ IF AcquireAllowed(locked, rkind[r])
       THEN /\ locked' = [locked EXCEPT ![rkind[r]] = TRUE]
            /\ current_sync' = [current_sync EXCEPT ![rkind[r]] =
                                  [status |-> "running", start_time |-> now]]
            /\ nAcquire' = [nAcquire EXCEPT ![r] = @ + 1]
            /\ rpc' = [rpc EXCEPT ![r] = "created"]
       ELSE /\ rpc' = [rpc EXCEPT ![r] = "rejected"]
            /\ UNCHANGED <<locked, current_sync, nAcquire>>
    /\ UNCHANGED <<rkind, worker, gexit, nRelease, now, auxVars, exportVars>>

\* The transport pulls the first event: the generator runs to its first yield
\* (sync_started), inside the try block.
GenStart(r) ==
    /\ rpc[r] = "created"
    /\ rpc' = [rpc EXCEPT ![r] = "yield_started"]
    /\ UNCHANGED <<locked, current_sync, rkind, worker, gexit, nAcquire, nRelease, now, auxVars, exportVars>>

\* The import of the export code. script/export_basic_data.py defines no
\* export_basic_data_to_context, so the basic-data import raises ImportError.
ImportRaises(k) == k = "basic-data"

\* Resumed after sync_started: import, then create_task(to_thread(sync_worker)).
GenSpawn(r) ==
    /\ rpc[r] = "yield_started"
    /\ IF ImportRaises(rkind[r])
       THEN /\ rpc' = [rpc EXCEPT ![r] = "yield_error"]
            /\ UNCHANGED worker
       ELSE /\ rpc' = [rpc EXCEPT ![r] = "loop"]
            /\ worker' = [worker EXCEPT ![r] = "running"]
    /\ UNCHANGED <<locked, current_sync, rkind, gexit, nAcquire, nRelease, now, auxVars, exportVars>>

\* The export worker thread ends: it returns a summary or raises. It is a
\* thread, so it runs to its end whatever happens to the generator.
WorkerFinish(r, outcome) ==
    /\ worker[r] = "running"
    /\ worker' = [worker EXCEPT ![r] = outcome]
    /\ UNCHANGED <<locked, current_sync, rpc, rkind, gexit, nAcquire, nRelease, now, auxVars, exportVars>>

\* "while not sync_task.done()" ends; the queues are drained; "await sync_task"
\* returns the summary (sync_completed is yielded) or raises (the except block
\* yields the error event).
GenAwaitResult(r) ==
    /\ rpc[r] = "loop"
    /\ worker[r] \in {"returned", "raised"}
    /\ rpc' = [rpc EXCEPT ![r] =
                 IF worker[r] = "returned" THEN "yield_completed" ELSE "yield_error"]
    /\ UNCHANGED <<locked, current_sync, rkind, worker, gexit, nAcquire, nRelease, now, auxVars, exportVars>>

\* The finally block of the generator.
Finally(r, how) ==
    /\ Release(rkind[r])
    /\ nRelease' = [nRelease EXCEPT ![r] = @ + 1]
    /\ gexit' = [gexit EXCEPT ![r] = how]
    /\ rpc' = [rpc EXCEPT ![r] = "closed"]
    /\ UNCHANGED <<rkind, worker, nAcquire, now, auxVars, exportVars>>

\* Resumed after the terminal event: the try (or except) block ends.
GenFinish(r) ==
    /\ rpc[r] \in {"yield_completed", "yield_error"}
    /\ Finally(r, IF rpc[r] = "yield_completed" THEN "normal" ELSE "error")

\* The client goes away: the transport closes or cancels the suspended
\* generator (GeneratorExit / CancelledError, which "except Exception" does not
\* catch), and the finally block runs.
Abandon(r) ==
    /\ rpc[r] \in Suspended
    /\ Finally(r, "abandoned")

\* The generator object is dropped before its first event was pulled: the body
\* never ran, so there is no try block to leave.
DropUnstarted(r) ==
    /\ rpc[r] = "created"
    /\ rpc' = [rpc EXCEPT ![r] = "dropped"]
    /\ UNCHANGED <<locked, current_sync, rkind, worker, gexit, nAcquire, nRelease, now, auxVars, exportVars>>

\* ------------------------------------------------ the status query
\* SyncLockManager.get_status
GetStatusStale(k) == [is_running |-> FALSE, current_sync |-> current_sync[k]]
GetStatus(k) == [is_running |-> locked[k], current_sync |-> current_sync[k]]

\* get_sync_status: the status of both kinds.
StatusQuery ==
    /\ status_reply' = [asked |-> TRUE,
                        basic_data |-> GetStatus("basic-data"),
                        invoices |-> GetStatus("invoices")]
    /\ UNCHANGED <<syncVars, relayVars, beatVars, otherVars, now, exportVars>>

\* ---------------------------------------------------- POST /api/query
\* Strings of a request body: sequences of characters, a blank and a letter.
Chars == {" ", "a"}
Strs == UNION {[1..n -> Chars] : n \in 0..MaxStr}

\* str.strip()
RECURSIVE LStrip(_)
LStrip(v) == IF v # <<>> /\ Head(v) = " " THEN LStrip(Tail(v)) ELSE v
RECURSIVE RStrip(_)
RStrip(v) ==
    IF v # <<>> /\ v[Len(v)] = " " THEN RStrip(SubSeq(v, 1, Len(v) - 1)) ELSE v
StripBlanks(v) == RStrip(LStrip(v))

\* The result of a validator: the value it returns, or Invalid when it raises.
Invalid == <<"invalid">>

\* QueryRequest.tenant_id: a required str, then tenant_id_not_empty.
tenant_id_not_empty(v) ==
    IF v = Null THEN Invalid
    ELSE IF v = <<>> \/ StripBlanks(v) = <<>> THEN Invalid ELSE StripBlanks(v)

\* QueryRequest.prompt: a required str with min_length=1, then
\* prompt_not_empty.
prompt_not_empty(v) ==
    IF v = Null \/ Len(v) < 1 THEN Invalid
    ELSE IF v = <<>> \/ StripBlanks(v) = <<>> THEN Invalid ELSE StripBlanks(v)

\* QueryRequest.language and country_code: language_not_empty and
\* country_code_not_empty, the same code. None passes.
optional_not_empty(v) ==
    IF v # Null /\ (v = <<>> \/ StripBlanks(v) = <<>>) THEN Invalid
    ELSE IF v # Null /\ v # <<>> THEN StripBlanks(v) ELSE Null

\* "if not self.session_id": None or the empty string.
NotSessionId(v) == v = Null \/ v = <<>>

\* validate_new_session_requirements, on the validated fields.
ValidateEverySession(session_id, country_code, language) ==
    country_code # Null /\ language # Null
validate_new_session_requirements(session_id, country_code, language) ==
    NotSessionId(session_id) => (country_code # Null /\ language # Null)

\* QueryRequest(**body): the field validators, and when none of them raised
\* the model validator. ok is FALSE when a ValidationError is raised.
QueryRequest(body) ==
    LET t == tenant_id_not_empty(body.tenant_id)
        p == prompt_not_empty(body.prompt)
        l == optional_not_empty(body.language)
        c == optional_not_empty(body.country_code)
        fields == Invalid \notin {t, p, l, c}
    IN  [ok |-> fields /\ validate_new_session_requirements(body.session_id, c, l),
         tenant_id |-> t, prompt |-> p, language |-> l,
         session_id |-> body.session_id, country_code |-> c,
         context |-> body.context]

\* The bodies a client can send; context stands for "a context is given and
\* the skill is invoice-field-recommender".
Bodies ==
    [tenant_id : Strs \cup {Null}, prompt : Strs \cup {Null},
     language : Strs \cup {Null}, session_id : Strs \cup {Null},
     country_code : Strs \cup {Null}, context : BOOLEAN]

QueryInit == qreq \in Bodies /\ qresp = NoResponse

\* query_agent: 422 with the validation errors, or the context is saved when
\* there is one and an EventSourceResponse over stream_response is returned.
query_agent ==
    /\ qresp.status_code = 0
    /\ LET q == QueryRequest(qreq)
       IN  qresp' = IF q.ok
                    THEN [status_code |-> 200, stream |-> TRUE,
                          invoice_file |-> q.context, request |-> q]
                    ELSE [status_code |-> 422, stream |-> FALSE,
                          invoice_file |-> FALSE, request |-> q]
    /\ UNCHANGED qreq
    /\ UNCHANGED <<syncVars, relayVars, beatVars, status_reply, lockVars, poolVars, moreVars, now, exportVars>>

\* ------------------------------------------------ the stream's events
\* The threads that emit: the worker started by to_thread, which runs
\* export_incremental or export_all, and a thread of export_all's pool.
Threads == {"worker", "pool"}

\* An SSE event, or an entry of a queue: its type, and for a log line or a
\* progress tick the thread that emitted it and its number among that
\* thread's emissions.
Ev(type, src, n, status) == [type |-> type, src |-> src, n |-> n, status |-> status]
Started == Ev("sync_started", "none", 0, "none")
Heartbeat == Ev("heartbeat", "none", 0, "running")
Completed(status) == Ev("sync_completed", "none", 0, status)
ErrorEvent == Ev("error", "none", 0, "none")
Terminal(e) == e.type \in {"sync_completed", "error"}

\* What the worker can end with: a summary with success true; export_all's
\* summary with error partitions; the failure summary of the except block of
\* export_incremental / export_all (the connection failed); the exception
\* init_state_file lets through (the state directory cannot be created).
Returned == {"success", "partition_errors", "connect_failed"}
Raised == {"init_raised"}

\* status = "success" if result.get("success") else "partial"
CompletedStatus(res) == IF res = "success" THEN "success" ELSE "partial"

\* The events that follow "await sync_task": sync_completed with the summary,
\* or the error event of the except block when the await raises.
AwaitEventsBoth(res) == <<Completed(CompletedStatus(res)), ErrorEvent>>
AwaitEvents(res) ==
    IF res \in Returned THEN <<Completed(CompletedStatus(res))>> ELSE <<ErrorEvent>>

\* The generator is created for a request that holds the request lock.
RelayInit ==
    /\ skind \in Kinds
    /\ gpc = "created" /\ task = "none" /\ result = "none"
    /\ loopBound = FALSE /\ log_queue = <<>> /\ progress_queue = <<>>
    /\ emitted = <<>> /\ events = <<>>
    /\ locked = [k \in Kinds |-> k = skind]
    /\ current_sync = [k \in Kinds |->
          IF k = skind THEN [status |-> "running", start_time |-> now] ELSE None]

\* The first event is pulled: the queues are created and sync_started is
\* yielded. asyncio.Queue() takes the running loop at construction in Python
\* 3.9 and only in the first get() that has to wait from 3.10 on; the
\* repository pins no interpreter, so either can be the case.
RStart ==
    /\ gpc = "created"
    /\ events' = Append(events, Started)
    /\ gpc' = "yield_started"
    /\ loopBound' \in BOOLEAN
    /\ UNCHANGED <<skind, task, result, log_queue, progress_queue, emitted>>
    /\ UNCHANGED <<syncVars, beatVars, status_reply, otherVars, now, exportVars>>

\* Resumed: the import, then create_task(to_thread(sync_worker)); the import
\* of the basic-data export raises and the except block yields the error.
RSpawn ==
    /\ gpc = "yield_started"
    /\ IF ImportRaises(skind)
       THEN /\ events' = Append(events, ErrorEvent)
            /\ gpc' = "yield_error"
            /\ UNCHANGED task
       ELSE /\ task' = "running"
            /\ gpc' = "top"
            /\ UNCHANGED events
    /\ UNCHANGED <<skind, result, loopBound, log_queue, progress_queue, emitted>>
    /\ UNCHANGED <<syncVars, beatVars, status_reply, otherVars, now, exportVars>>

\* The number of the next emission of thread t.
NextNo(t) == Cardinality({i \in 1..Len(emitted) : emitted[i].src = t}) + 1

\* QueueLoggingHandler.emit, in a worker thread: the entry is handed to
\* log_queue._loop.call_soon_threadsafe. An asyncio.Queue has no loop until a
\* get() of it has had to wait; before that _loop is None, the call raises
\* AttributeError and handleError drops the entry.
EmitLog(t) ==
    /\ task = "running"
    /\ Len(emitted) < MaxEmit
    /\ LET e == Ev("log_message", t, NextNo(t), "none")
       IN  /\ emitted' = Append(emitted, e)
           /\ log_queue' = IF loopBound THEN Append(log_queue, e) ELSE log_queue
    /\ UNCHANGED <<skind, gpc, task, result, loopBound, progress_queue, events>>
    /\ UNCHANGED <<syncVars, beatVars, status_reply, otherVars, now, exportVars>>

\* export_all, collecting loop: progress_queue.put_nowait, called in the
\* worker thread itself.
EmitProgress ==
    /\ task = "running"
    /\ Len(emitted) < MaxEmit
    /\ LET e == Ev("progress_update", "worker", NextNo("worker"), "none")
       IN  /\ emitted' = Append(emitted, e)
           /\ progress_queue' = Append(progress_queue, e)
    /\ UNCHANGED <<skind, gpc, task, result, loopBound, log_queue, events>>
    /\ UNCHANGED <<syncVars, beatVars, status_reply, otherVars, now, exportVars>>

\* The call by which a worker thread enqueues an event of a type:
\* QueueLoggingHandler.emit hands put_nowait to the loop with
\* call_soon_threadsafe; export_all calls progress_queue.put_nowait itself.
EnqueueCall(type) ==
    IF type = "log_message" THEN "call_soon_threadsafe" ELSE "put_nowait"

\* sync_worker returns or raises; the pool threads have ended before.
WorkerEnd(res) ==
    /\ task = "running"
    /\ task' = "done"
    /\ result' = res
    /\ UNCHANGED <<skind, gpc, loopBound, log_queue, progress_queue, emitted, events>>
    /\ UNCHANGED <<syncVars, beatVars, status_reply, otherVars, now, exportVars>>

\* "while not sync_task.done()": the loop is left for the drain, or
\* wait_for(log_queue.get(), timeout=0.1) is entered, which binds the queue
\* to the loop when it has to wait.
RLoopTop ==
    /\ gpc = "top"
    /\ IF task = "done"
       THEN gpc' = "drain_log" /\ UNCHANGED loopBound
       ELSE gpc' = "log_get" /\ loopBound' = TRUE
    /\ UNCHANGED <<skind, task, result, log_queue, progress_queue, emitted, events>>
    /\ UNCHANGED <<syncVars, beatVars, status_reply, otherVars, now, exportVars>>

\* The get returns a log entry: it is yielded, and "continue".
RLogGet ==
    /\ gpc = "log_get"
    /\ log_queue # <<>>
    /\ events' = Append(events, Head(log_queue))
    /\ log_queue' = Tail(log_queue)
    /\ gpc' = "top"
    /\ UNCHANGED <<skind, task, result, loopBound, progress_queue, emitted>>
    /\ UNCHANGED <<syncVars, beatVars, status_reply, otherVars, now, exportVars>>

\* asyncio.TimeoutError: no log entry came; on to the progress queue.
RLogTimeout ==
    /\ gpc = "log_get"
    /\ log_queue = <<>>
    /\ gpc' = "progress_get"
    /\ UNCHANGED <<skind, task, result, loopBound, log_queue, progress_queue, emitted, events>>
    /\ UNCHANGED <<syncVars, beatVars, status_reply, otherVars, now, exportVars>>

\* The get returns a progress tick: it is yielded, and "continue".
RProgressGet ==
    /\ gpc = "progress_get"
    /\ progress_queue # <<>>
    /\ events' = Append(events, Head(progress_queue))
    /\ progress_queue' = Tail(progress_queue)
    /\ gpc' = "top"
    /\ UNCHANGED <<skind, task, result, loopBound, log_queue, emitted>>
    /\ UNCHANGED <<syncVars, beatVars, status_reply, otherVars, now, exportVars>>

\* No progress tick came either: the heartbeat when one is due (it is, or is
\* not, more than 30 s since the last), then asyncio.sleep(0.5).
RBeatSleep(due) ==
    /\ gpc = "progress_get"
    /\ progress_queue = <<>>
    /\ due => Cardinality({i \in 1..Len(events) : events[i] = Heartbeat}) < MaxBeats
    /\ events' = IF due THEN Append(events, Heartbeat) ELSE events
    /\ gpc' = "top"
    /\ UNCHANGED <<skind, task, result, loopBound, log_queue, progress_queue, emitted>>
    /\ UNCHANGED <<syncVars, beatVars, status_reply, otherVars, now, exportVars>>

\* "while not log_queue.empty()": get_nowait and yield, or on to the
\* progress queue.
RDrainLog ==
    /\ gpc = "drain_log"
    /\ IF log_queue # <<>>
       THEN /\ events' = Append(events, Head(log_queue))
            /\ log_queue' = Tail(log_queue)
            /\ UNCHANGED gpc
       ELSE /\ gpc' = "drain_progress"
            /\ UNCHANGED <<events, log_queue>>
    /\ UNCHANGED <<skind, task, result, loopBound, progress_queue, emitted>>
    /\ UNCHANGED <<syncVars, beatVars, status_reply, otherVars, now, exportVars>>

\* "while not progress_queue.empty()": get_nowait and yield; then
\* "await sync_task" and the terminal event.
RDrainProgress ==
    /\ gpc = "drain_progress"
    /\ IF progress_queue # <<>>
       THEN /\ events' = Append(events, Head(progress_queue))
            /\ progress_queue' = Tail(progress_queue)
            /\ UNCHANGED gpc
       ELSE /\ events' = events \o AwaitEvents(result)
            /\ gpc' = IF result \in Returned THEN "yield_completed" ELSE "yield_error"
            /\ UNCHANGED progress_queue
    /\ UNCHANGED <<skind, task, result, loopBound, log_queue, emitted>>
    /\ UNCHANGED <<syncVars, beatVars, status_reply, otherVars, now, exportVars>>

\* Resumed after the terminal event: the finally block releases the request
\* lock and the generator is exhausted.
RFinish ==
    /\ gpc \in {"yield_completed", "yield_error"}
    /\ gpc' = "closed"
    /\ Release(skind)
    /\ UNCHANGED <<skind, task, result, loopBound, log_queue, progress_queue, emitted, events>>
    /\ UNCHANGED <<rpc, rkind, worker, gexit, nAcquire, nRelease>>
    /\ UNCHANGED <<beatVars, status_reply, otherVars, now, exportVars>>

\* ------------------------------------------------ the loop on the clock
\* "last_heartbeat = datetime.utcnow()" and the loop is entered.
BeatInit ==
    /\ clk = 0 /\ last_heartbeat = 0 /\ bpc = "log_get"
    /\ silent_from = -1 /\ beats = 0

\* The loop is followed until the silent window is over, or, when the worker
\* has not fallen silent, until MaxBusy.
BeatRuns ==
    IF silent_from = -1 THEN clk <= MaxBusy ELSE clk <= silent_from + SILENT_WINDOW

\* The worker emits nothing from now on, for SILENT_WINDOW at least.
BFallSilent ==
    /\ bpc = "log_get"
    /\ silent_from = -1
    /\ BeatRuns
    /\ silent_from' = clk
    /\ UNCHANGED <<clk, last_heartbeat, bpc, beats>>
    /\ UNCHANGED <<syncVars, relayVars, status_reply, otherVars, now, exportVars>>

\* wait_for(log_queue.get(), timeout=0.1) returns an entry after d; it is
\* yielded, and "continue".
BLogGet(d) ==
    /\ bpc = "log_get"
    /\ silent_from = -1
    /\ BeatRuns
    /\ clk' = clk + d
    /\ UNCHANGED <<last_heartbeat, bpc, silent_from, beats>>
    /\ UNCHANGED <<syncVars, relayVars, status_reply, otherVars, now, exportVars>>

\* wait_for(log_queue.get(), timeout=0.1) times out.
BLogTimeout ==
    /\ bpc = "log_get"
    /\ BeatRuns
    /\ clk' = clk + LOG_WAIT
    /\ bpc' = "progress_get"
    /\ UNCHANGED <<last_heartbeat, silent_from, beats>>
    /\ UNCHANGED <<syncVars, relayVars, status_reply, otherVars, now, exportVars>>

\* wait_for(progress_queue.get(), timeout=0.1) returns a tick after d; it is
\* yielded, and "continue".
BProgressGet(d) ==
    /\ bpc = "progress_get"
    /\ silent_from = -1
    /\ BeatRuns
    /\ clk' = clk + d
    /\ bpc' = "log_get"
    /\ UNCHANGED <<last_heartbeat, silent_from, beats>>
    /\ UNCHANGED <<syncVars, relayVars, status_reply, otherVars, now, exportVars>>

\* wait_for(progress_queue.get(), timeout=0.1) times out.
BProgressTimeout ==
    /\ bpc = "progress_get"
    /\ BeatRuns
    /\ clk' = clk + PROGRESS_WAIT
    /\ bpc' = "beat"
    /\ UNCHANGED <<last_heartbeat, silent_from, beats>>
    /\ UNCHANGED <<syncVars, relayVars, status_reply, otherVars, now, exportVars>>

\* "if (now - last_heartbeat).total_seconds() > 30": the heartbeat is yielded
\* and last_heartbeat = now.
BeatDue == clk - last_heartbeat > HEARTBEAT_AFTER

BBeat ==
    /\ bpc = "beat"
    /\ BeatRuns
    /\ IF BeatDue
       THEN /\ last_heartbeat' = clk
            /\ beats' = IF silent_from # -1 THEN beats + 1 ELSE beats
       ELSE UNCHANGED <<last_heartbeat, beats>>
    /\ bpc' = "sleep"
    /\ UNCHANGED <<clk, silent_from>>
    /\ UNCHANGED <<syncVars, relayVars, status_reply, otherVars, now, exportVars>>

\* await asyncio.sleep(0.5)
BSleep ==
    /\ bpc = "sleep"
    /\ BeatRuns
    /\ clk' = clk + LOOP_SLEEP
    /\ bpc' = "log_get"
    /\ UNCHANGED <<last_heartbeat, silent_from, beats>>
    /\ UNCHANGED <<syncVars, relayVars, status_reply, otherVars, now, exportVars>>

\* ------------------------------------------------------------ fixtures
\* Tenant ids are strings; a string is a sequence of characters here, so that
\* startswith and the format check see what the code sees.
T_1 == <<"1">>
T_12 == <<"1", "2">>
T_T1 == <<"T", "1">>
\* sorted() order of the tenant ids.
TenantOrder == <<T_1, T_12, T_T1>>
Tenants == {TenantOrder[i] : i \in 1..Len(TenantOrder)}
\* ORDER BY fcountry; 'UNKNOWN' stands for a NULL country.
CountryOrder == <<"CN", "UNKNOWN">>
Countries == {CountryOrder[i] : i \in 1..Len(CountryOrder)}
Procs == 1..MaxProcs
\* Instants, in seconds after 1970-01-01 00:00:00.
Times == 0..(IF MaxStamp > MaxClock + 1 THEN MaxStamp ELSE MaxClock + 1)

\* The rows the source table may hold: tenant, country, fupdate_time, and
\* whether fext_field passes validate_json_field.
RowPool ==
    { [tenant |-> T_1,  country |-> "CN",      utime |-> 1, valid |-> TRUE],
      [tenant |-> T_1,  country |-> "CN",      utime |-> 2, valid |-> FALSE],
      [tenant |-> T_1,  country |-> "UNKNOWN", utime |-> 2, valid |-> TRUE],
      [tenant |-> T_12, country |-> "CN",      utime |-> 1, valid |-> TRUE],
      [tenant |-> T_12, country |-> "UNKNOWN", utime |-> 3, valid |-> TRUE],
      [tenant |-> T_T1, country |-> "CN",      utime |-> 2, valid |-> TRUE] }

\* ---------------------------------------------------------------- text
NL == "\n"
Digits == {"0", "1", "2", "3", "4", "5", "6", "7", "8", "9"}
\* Tokens made of upper-case letters only.
Upper == {"T", "SUCCESS"}

\* strftime('%Y-%m-%d %H:%M:%S') of an instant.
TimeStr(n) == "1970-01-01 00:00:0" \o ToString(n)
\* The instant a 'YYYY-MM-DD HH:MM:SS' string denotes (the SQL comparison
\* fupdate_time > '<string>' converts it back).
ParseTime(s) ==
    IF \E n \in Times : s = <<TimeStr(n)>>
    THEN CHOOSE n \in Times : s = <<TimeStr(n)>>
    ELSE 0

\* f"{tenant_id}|{export_time}|{record_count}|{status}\n"
NewLine(t, time, cnt, st) == t \o <<"|", time, "|", ToString(cnt), "|", st, NL>>

\* str.strip() of a line: the line terminator is the only white space.
Strip(line) ==
    IF line # <<>> /\ line[Len(line)] = NL THEN SubSeq(line, 1, Len(line) - 1) ELSE line

\* str.startswith
StartsWith(s, pre) == Len(s) >= Len(pre) /\ SubSeq(s, 1, Len(pre)) = pre

\* line.strip().startswith(f"{tenant_id}|")
HasKeyPrefix(line, t) == StartsWith(Strip(line), t)
HasKey(line, t) == StartsWith(Strip(line), t \o <<"|">>)

\* Index of the first "|" of s at or after position i, Len(s) + 1 when none.
RECURSIVE FindBar(_, _)
FindBar(s, i) == IF i > Len(s) THEN i ELSE IF s[i] = "|" THEN i ELSE FindBar(s, i + 1)

\* line.split('|')[1]
Field1(s) ==
    LET a == FindBar(s, 1)
        b == FindBar(s, a + 1)
    IN  SubSeq(s, a + 1, b - 1)

\* A file: does the name exist, and the lines it holds. A line that does not
\* end with the terminator is the torn end of an interrupted write.
NoFile == [exists |-> FALSE, lines |-> <<>>]
EmptyFile == [exists |-> TRUE, lines |-> <<>>]
Complete(line) == line # <<>> /\ line[Len(line)] = NL

\* f.write(text) at the end of a file's content.
WriteText(lines, text) ==
    IF lines # <<>> /\ ~Complete(lines[Len(lines)])
    THEN [lines EXCEPT ![Len(lines)] = @ \o text]
    ELSE Append(lines, text)

RECURSIVE WriteAll(_, _)
WriteAll(lines, texts) ==
    IF texts = <<>> THEN lines ELSE WriteAll(WriteText(lines, Head(texts)), Tail(texts))

\* The lines of a content that carry tenant t's key.
LinesOf(lines, t) == SelectSeq(lines, LAMBDA l : HasKey(l, t))

\* ------------------------------------------------ StateManager (ledger)
\* get_last_export_time: the second field of the first line with the key, ""
\* when the file or the line is missing.
GetLastExportTime(file, t) ==
    IF file.exists /\ LinesOf(file.lines, t) # <<>>
    THEN Field1(Strip(LinesOf(file.lines, t)[1]))
    ELSE <<>>

\* update_export_time, the copy loop: every line but the tenant's.
KeepAll(lines, t) == lines
KeepOthers(lines, t) == SelectSeq(lines, LAMBDA l : ~HasKey(l, t))

\* The contents an interrupted write of texts (onto base) can leave: some of the
\* lines, and possibly the first half of the next.
Torn(base, texts) ==
    {base}
    \cup { WriteAll(base, SubSeq(texts, 1, k)) : k \in 0..(Len(texts) - 1) }
    \cup UNION { { WriteText(WriteAll(base, SubSeq(texts, 1, k)), SubSeq(texts[k + 1], 1, j)) :
                     j \in {Len(texts[k + 1]) \div 2} } : k \in 0..(Len(texts) - 1) }

ProcIdle ==
    [ pc |-> "idle", mode |-> "none", dry_run |-> FALSE, tenant_id |-> <<>>,
      lock_file |-> "none", standalone |-> FALSE,
      boundary |-> 0, groups |-> <<>>, tenants |-> <<>>, tenant |-> <<>>,
      last_time |-> <<>>, tgroups |-> <<>>, pending |-> {},
      tenant_export_count |-> 0, tenant_error_count |-> 0,
      total_export_count |-> 0, total_tenant_count |-> 0,
      total_invoices |-> 0, successful_files |-> 0, failed_files |-> 0,
      results |-> <<>>, windows |-> <<>>,
      upd |-> [tenant |-> <<>>, time |-> "", count |-> 0, status |-> ""],
      lines |-> <<>>, summary |-> [success |-> FALSE, kind |-> "none"] ]

\* The line update_export_time is about to record.
UpdLine(pr) == NewLine(pr.upd.tenant, pr.upd.time, pr.upd.count, pr.upd.status)

\* update_export_time has returned: back to the caller. In a run, the tenant
\* loop adds the tenant's count to the total and goes to the next tenant.
AfterUpdate(pr) ==
    IF pr.standalone
    THEN ProcIdle
    ELSE [pr EXCEPT !.pc = "tenant", !.tenants = Tail(@),
                    !.total_export_count = @ + pr.tenant_export_count]

\* Where update_export_time writes the new ledger content: the temporary file.
WriteInPlace(content) == ledger' = [exists |-> TRUE, lines |-> content] /\ UNCHANGED temp
WriteTemp(content) == temp' = [exists |-> TRUE, lines |-> content] /\ UNCHANGED ledger

\* update_export_time: "if STATE_FILE.exists(): lines = f.readlines()".
UpdRead(p) ==
    /\ proc[p].pc = "upd_read"
    /\ proc' = IF ledger.exists
               THEN [proc EXCEPT ![p].lines = ledger.lines, ![p].pc = "upd_write"]
               ELSE [proc EXCEPT ![p].lines = <<>>, ![p].pc = "upd_append"]
    /\ UNCHANGED <<syncVars, auxVars, now, db, ledger, temp, backups, lockFile, flockHolder,
                   outFiles, runs, lastWritten, lastRename>>

\* update_export_time: open(temp_file, 'w') and the copy of the other lines.
UpdWrite(p) ==
    /\ proc[p].pc = "upd_write"
    /\ WriteTemp(WriteAll(<<>>, KeepOthers(proc[p].lines, proc[p].upd.tenant)))
    /\ proc' = [proc EXCEPT ![p].pc = "upd_append"]
    /\ UNCHANGED <<syncVars, auxVars, now, db, backups, lockFile, flockHolder,
                   outFiles, runs, lastWritten, lastRename>>

\* update_export_time: open(temp_file, 'a') and the write of the new line.
UpdAppend(p) ==
    /\ proc[p].pc = "upd_append"
    /\ WriteTemp(WriteText(temp.lines, UpdLine(proc[p])))
    /\ proc' = [proc EXCEPT ![p].pc = "upd_rename"]
    /\ UNCHANGED <<syncVars, auxVars, now, db, backups, lockFile, flockHolder,
                   outFiles, runs, lastWritten, lastRename>>

\* update_export_time: shutil.move(temp_file, STATE_FILE), a rename within one
\* directory. Without a temporary file the move raises; the except block logs
\* it and the ledger stays as it is.
UpdRename(p) ==
    /\ proc[p].pc = "upd_rename"
    /\ IF temp.exists
       THEN /\ ledger' = temp
            /\ temp' = NoFile
            /\ lastWritten' = [lastWritten EXCEPT ![proc[p].upd.tenant] = UpdLine(proc[p])]
            /\ lastRename' = [tenant |-> proc[p].upd.tenant,
                              replaced |-> LinesOf(ledger.lines, proc[p].upd.tenant) # <<>>]
       ELSE UNCHANGED <<ledger, temp, lastWritten, lastRename>>
    /\ proc' = [proc EXCEPT ![p] = AfterUpdate(proc[p])]
    /\ UNCHANGED <<syncVars, auxVars, now, db, backups, lockFile, flockHolder, outFiles, runs>>

\* Positions at which a process is not executing.
Stopped == {"idle", "done", "raised", "crashed"}

\* The process dies (kill, power loss) between two steps. The operating system
\* closes its files and drops its flock; its memory is gone; files stay as
\* they are.
Crash(p) ==
    /\ proc[p].pc \notin Stopped
    /\ proc' = [proc EXCEPT ![p] = [ProcIdle EXCEPT !.pc = "crashed"]]
    /\ flockHolder' = IF flockHolder = p THEN 0 ELSE flockHolder
    /\ UNCHANGED <<syncVars, auxVars, now, db, ledger, temp, backups, lockFile,
                   outFiles, runs, lastWritten, lastRename>>

\* The process dies inside a write to the temporary file: only part of the
\* text has reached the file.
CrashTorn(p) ==
    /\ proc[p].pc \in {"upd_write", "upd_append"}
    /\ \E content \in
           IF proc[p].pc = "upd_write"
           THEN Torn(<<>>, KeepOthers(proc[p].lines, proc[p].upd.tenant))
           ELSE Torn(temp.lines, <<UpdLine(proc[p])>>) :
         WriteTemp(content)
    /\ proc' = [proc EXCEPT ![p] = [ProcIdle EXCEPT !.pc = "crashed"]]
    /\ flockHolder' = IF flockHolder = p THEN 0 ELSE flockHolder
    /\ UNCHANGED <<syncVars, auxVars, now, db, backups, lockFile, outFiles, runs, lastWritten, lastRename>>

\* A caller invokes update_export_time(tenant_id, export_time, record_count)
\* on a StateManager; with dry_run set the call only logs.
LedgerCall(p, t, n, cnt, dry) ==
    /\ proc[p].pc \in {"idle", "crashed"}
    /\ proc' = [proc EXCEPT ![p] =
                  [ProcIdle EXCEPT !.pc = IF dry THEN "idle" ELSE "upd_read",
                                   !.standalone = TRUE, !.dry_run = dry,
                                   !.upd = [tenant |-> t, time |-> TimeStr(n),
                                            count |-> cnt, status |-> "SUCCESS"]]]
    /\ UNCHANGED <<syncVars, auxVars, now, db, ledger, temp, backups, lockFile, flockHolder,
                   outFiles, runs, lastWritten, lastRename>>

\* ------------------------------------------------ StateManager (lock)
\* __enter__ returns self: it does not call acquire_lock, so the lock file is
\* as it was.
EnterCreatesLockFile(lf) == TRUE
EnterLockFile(lf) == lf

\* release_lock, called by __exit__: with a lock file handle, unlock, close
\* and unlink; without one, nothing.
ReleaseLock(p) ==
    IF proc[p].lock_file = "open"
    THEN /\ flockHolder' = IF flockHolder = p THEN 0 ELSE flockHolder
         /\ lockFile' = FALSE
    ELSE UNCHANGED <<flockHolder, lockFile>>

\* acquire_lock. mkdir or open raises OSError when the file cannot be
\* created; else the file is opened for writing, created when missing, and
\* the handle replaces self.lock_file, which closes the handle the process had
\* and drops its flock; flock(LOCK_EX | LOCK_NB) raises at once when another
\* open handle holds the lock on the same file. Every OSError gives the same
\* log lines and the return value False.
acquire_lock(p, creatable) ==
    /\ lcall.n < MaxCalls
    /\ creatable => (lock_path # 0 \/ inodes < MaxInodes)
    /\ IF ~creatable
       THEN /\ lcall' = [n |-> lcall.n + 1, p |-> p, op |-> "acquire_lock",
                         ret |-> Refused, cause |-> "cannot_create"]
            /\ UNCHANGED <<lock_path, inodes, handle, held>>
       ELSE LET ino == IF lock_path # 0 THEN lock_path ELSE inodes + 1
                busy == \E q \in held \ {p} : handle[q].ino = ino
            IN  /\ lock_path' = ino
                /\ inodes' = IF lock_path # 0 THEN inodes ELSE inodes + 1
                /\ handle' = [handle EXCEPT ![p] = [st |-> "open", ino |-> ino]]
                /\ held' = IF busy THEN held \ {p} ELSE held \cup {p}
                /\ lcall' = [n |-> lcall.n + 1, p |-> p, op |-> "acquire_lock",
                             ret |-> IF busy THEN Refused ELSE Acquired,
                             cause |-> IF busy THEN "busy" ELSE "none"]
    /\ UNCHANGED <<syncVars, relayVars, beatVars, status_reply, queryVars, poolVars, moreVars, now, exportVars>>

\* release_lock. Without a handle nothing is done. With one: flock(LOCK_UN),
\* close, and the file at the lock path is unlinked when there is one,
\* whoever created it and whoever holds its lock; self.lock_file keeps the
\* closed file object, which is true, so a later call gets ValueError from
\* fileno(), which "except (OSError, IOError)" does not catch.
release_lock(p) ==
    /\ lcall.n < MaxCalls
    /\ IF handle[p].st = "none"
       THEN /\ lcall' = [n |-> lcall.n + 1, p |-> p, op |-> "release_lock",
                         ret |-> Nothing, cause |-> "none"]
            /\ UNCHANGED <<lock_path, handle, held>>
       ELSE IF handle[p].st = "open"
       THEN /\ held' = held \ {p}
            /\ handle' = [handle EXCEPT ![p].st = "closed"]
            /\ lock_path' = 0
            /\ lcall' = [n |-> lcall.n + 1, p |-> p, op |-> "release_lock",
                         ret |-> Released, cause |-> "none"]
       ELSE /\ lcall' = [n |-> lcall.n + 1, p |-> p, op |-> "release_lock",
                         ret |-> RaisedValueError, cause |-> "none"]
            /\ UNCHANGED <<lock_path, handle, held>>
    /\ UNCHANGED inodes
    /\ UNCHANGED <<syncVars, relayVars, beatVars, status_reply, queryVars, poolVars, moreVars, now, exportVars>>

\* ------------------------------------------------ InvoiceExporter
\* init_state_file, the format check of one stripped line:
\* re.match(r'^\d+\|\d{4}-\d{2}-\d{2} \d{2}:\d{2}:\d{2}|\d+|[A-Z]+$', line).
\* The unescaped bars make three alternatives: digits, a bar and a date at the
\* start; digits at the start; upper-case letters up to the end.
RegexMatches(s) ==
    /\ s # <<>>
    /\ \/ s[1] \in Digits
       \/ \A i \in 1..Len(s) : s[i] \in Upper

\* The (tenant, country) keys in ORDER BY ftenant_id, fcountry order.
AllKeys ==
    [i \in 1..(Len(TenantOrder) * Len(CountryOrder)) |->
        [tenant |-> TenantOrder[((i - 1) \div Len(CountryOrder)) + 1],
         country |-> CountryOrder[((i - 1) % Len(CountryOrder)) + 1]]]

RowsOf(d, t, c) == {r \in d : r.tenant = t /\ r.country = c}

\* get_tenant_country_groups: the groups with rows, of one tenant when
\* tenant_id is set, each with its row count.
GetTenantCountryGroups(d, tid) ==
    LET keys == SelectSeq(AllKeys, LAMBDA k :
                    /\ RowsOf(d, k.tenant, k.country) # {}
                    /\ (tid = <<>> \/ k.tenant = tid))
    IN  [i \in 1..Len(keys) |->
            [tenant |-> keys[i].tenant, country |-> keys[i].country,
             invoice_count |-> Cardinality(RowsOf(d, keys[i].tenant, keys[i].country))]]

\* sorted(set(group[0] for group in all_groups))
UniqueTenants(groups) ==
    SelectSeq(TenantOrder, LAMBDA t : \E i \in 1..Len(groups) : groups[i].tenant = t)

\* The time filter of the incremental query:
\* fupdate_time > '{last_time}' AND fupdate_time <= '{boundary_time}'.
InWindow(r, last, boundary) == r.utime > ParseTime(last) /\ r.utime <= ParseTime(boundary)

\* get_invoices_for_group: the rows the query returns, then the valid ones.
QueryRows(d, pr, g) ==
    {r \in RowsOf(d, g.tenant, g.country) :
        pr.mode = "incremental" => InWindow(r, pr.last_time, <<TimeStr(pr.boundary)>>)}
GetInvoicesForGroup(d, pr, g) == {r \in QueryRows(d, pr, g) : r.valid}

\* process_group: the result for group g when the query succeeds and the
\* writes of the files in failed fail; with raised, the except branch.
GroupResultNoEmptyTest(d, pr, g, raised, failed) ==
    LET invoices == GetInvoicesForGroup(d, pr, g)
    IN  IF raised
        THEN [tenant |-> g.tenant, country |-> g.country, status |-> "error",
              processed |-> 0, total |-> 0]
        ELSE [tenant |-> g.tenant, country |-> g.country, status |-> "success",
              processed |-> Cardinality(invoices) - Cardinality(failed),
              total |-> Cardinality(invoices)]
GroupResult(d, pr, g, raised, failed) ==
    LET invoices == GetInvoicesForGroup(d, pr, g)
    IN  IF raised
        THEN [tenant |-> g.tenant, country |-> g.country, status |-> "error",
              processed |-> 0, total |-> 0]
        ELSE IF invoices = {}
        THEN [tenant |-> g.tenant, country |-> g.country, status |-> "no_data",
              processed |-> 0, total |-> 0]
        ELSE [tenant |-> g.tenant, country |-> g.country, status |-> "success",
              processed |-> Cardinality(invoices) - Cardinality(failed),
              total |-> Cardinality(invoices)]

\* The write failures process_group can meet: none in a dry run (nothing is
\* written) or when the group raised or has no valid row.
FailureSets(d, pr, g, raised) ==
    IF raised \/ pr.dry_run THEN {{}} ELSE SUBSET GetInvoicesForGroup(d, pr, g)

\* process_group and write_invoice_files: the exporter's counters after the
\* group, and the files on disk.
AfterGroup(pr, res, failed) ==
    [pr EXCEPT !.results = Append(@, res),
               !.failed_files = @ + Cardinality(failed),
               !.total_invoices = @ + res.total,
               !.successful_files = @ + res.processed]

WrittenFiles(d, pr, g, raised, failed) ==
    IF raised \/ pr.dry_run THEN {} ELSE GetInvoicesForGroup(d, pr, g) \ failed

\* main() builds an InvoiceExporter and calls export_incremental or
\* export_all; the API's sync_worker does the same.
StartRun(p, mode, dry, tid) ==
    /\ proc[p].pc \in Stopped
    /\ runs < MaxRuns
    /\ runs' = runs + 1
    /\ proc' = [proc EXCEPT ![p] =
                  [ProcIdle EXCEPT !.pc = IF mode = "incremental" THEN "init" ELSE "full_connect",
                                   !.mode = mode, !.dry_run = dry, !.tenant_id = tid]]
    /\ UNCHANGED <<syncVars, auxVars, now, db, ledger, temp, backups, lockFile, flockHolder,
                   outFiles, lastWritten, lastRename>>

\* export_incremental: init_state_file. The file is created when missing; a
\* line that fails the format check moves the file to a backup and starts an
\* empty ledger.
InitStateFile(p) ==
    /\ proc[p].pc = "init"
    /\ LET file == IF ledger.exists THEN ledger ELSE EmptyFile
           bad == \E i \in 1..Len(file.lines) :
                      Strip(file.lines[i]) # <<>> /\ ~RegexMatches(Strip(file.lines[i]))
       IN  IF bad
           THEN /\ backups' = {b \in backups : b.at # now}
                                  \cup {[at |-> now, lines |-> file.lines]}
                /\ ledger' = EmptyFile
           ELSE /\ ledger' = file
                /\ UNCHANGED backups
    /\ proc' = [proc EXCEPT ![p].pc = "enter"]
    /\ UNCHANGED <<syncVars, auxVars, now, db, temp, lockFile, flockHolder, outFiles, runs,
                   lastWritten, lastRename>>

\* export_incremental: init_state_file cannot create the state directory or
\* the file; the exception leaves export_incremental.
InitRaises(p) ==
    /\ proc[p].pc = "init"
    /\ proc' = [proc EXCEPT ![p].pc = "raised"]
    /\ UNCHANGED <<syncVars, auxVars, now, db, ledger, temp, backups, lockFile, flockHolder,
                   outFiles, runs, lastWritten, lastRename>>

\* export_incremental: "with self.state_manager:".
Enter(p) ==
    /\ proc[p].pc = "enter"
    /\ lockFile' = EnterLockFile(lockFile)
    /\ proc' = [proc EXCEPT ![p].pc = "connect"]
    /\ UNCHANGED <<syncVars, auxVars, now, db, ledger, temp, backups, flockHolder, outFiles,
                   runs, lastWritten, lastRename>>

\* export_incremental: the connection, calculate_export_boundary,
\* get_tenant_country_groups and the list of tenants.
Connect(p) ==
    /\ proc[p].pc = "connect"
    /\ LET groups == GetTenantCountryGroups(db, proc[p].tenant_id)
       IN  proc' = [proc EXCEPT ![p].pc = "tenant",
                                ![p].boundary = now - TIME_BUFFER_SECONDS,
                                ![p].groups = groups,
                                ![p].tenants = UniqueTenants(groups)]
    /\ UNCHANGED <<syncVars, auxVars, now, db, ledger, temp, backups, lockFile, flockHolder,
                   outFiles, runs, lastWritten, lastRename>>

\* export_incremental: the connection or the enumeration raises; the except
\* block returns the failure summary.
ConnectFails(p) ==
    /\ proc[p].pc = "connect"
    /\ proc' = [proc EXCEPT ![p].pc = "exit",
                            ![p].summary = [success |-> FALSE, kind |-> "error"]]
    /\ UNCHANGED <<syncVars, auxVars, now, db, ledger, temp, backups, lockFile, flockHolder,
                   outFiles, runs, lastWritten, lastRename>>

\* export_incremental: top of the tenant loop: get_last_export_time, the
\* 1970 baseline for a tenant without a line, and the tenant's groups.
TenantBegin(p) ==
    /\ proc[p].pc = "tenant"
    /\ proc[p].tenants # <<>>
    /\ LET t == Head(proc[p].tenants)
           last == GetLastExportTime(ledger, t)
           from == IF last = <<>> THEN <<TimeStr(0)>> ELSE last
       IN  proc' = [proc EXCEPT
                ![p].pc = "group",
                ![p].tenant = t,
                ![p].last_time = from,
                ![p].windows = Append(@, [tenant |-> t, first |-> last = <<>>,
                                          last_time |-> from]),
                ![p].tgroups = SelectSeq(proc[p].groups, LAMBDA g : g.tenant = t),
                ![p].tenant_export_count = 0,
                ![p].tenant_error_count = 0,
                ![p].total_tenant_count = @ + 1]
    /\ UNCHANGED <<syncVars, auxVars, now, db, ledger, temp, backups, lockFile, flockHolder,
                   outFiles, runs, lastWritten, lastRename>>

\* export_incremental: result.get('processed', 0), added to the tenant's count.
ProcessedIsTotal(res) == res.total
Processed(res) == res.processed

\* export_incremental: process_group for the next group of the tenant.
IncGroup(p, raised) ==
    /\ proc[p].pc = "group"
    /\ proc[p].tgroups # <<>>
    /\ LET g == Head(proc[p].tgroups)
       IN  \E failed \in FailureSets(db, proc[p], g, raised) :
             LET res == GroupResult(db, proc[p], g, raised, failed)
                 pr == AfterGroup(proc[p], res, failed)
             IN  /\ proc' = [proc EXCEPT ![p] =
                        [pr EXCEPT !.tgroups = Tail(@),
                                   !.tenant_export_count =
                                       IF res.status = "success" THEN @ + Processed(res) ELSE @,
                                   !.tenant_error_count =
                                       IF res.status = "success" THEN @ ELSE @ + 1]]
                 /\ outFiles' = outFiles \cup WrittenFiles(db, proc[p], g, raised, failed)
    /\ UNCHANGED <<syncVars, auxVars, now, db, ledger, temp, backups, lockFile, flockHolder,
                   runs, lastWritten, lastRename>>

\* update_export_time: "if self.dry_run:" logs and returns.
UpdateSkippedWhenEmpty(pr) == pr.dry_run \/ pr.tenant_export_count = 0
UpdateSkippedOnErrors(pr) == pr.dry_run \/ pr.tenant_error_count > 0
UpdateSkipped(pr) == pr.dry_run

\* export_incremental: the tenant's groups are done: update_export_time is
\* called, whatever the count. With dry_run it logs and returns.
CallUpdate(p) ==
    /\ proc[p].pc = "group"
    /\ proc[p].tgroups = <<>>
    /\ proc' = [proc EXCEPT ![p] =
          IF UpdateSkipped(proc[p])
          THEN AfterUpdate(proc[p])
          ELSE [proc[p] EXCEPT !.pc = "upd_read",
                               !.upd = [tenant |-> proc[p].tenant,
                                        time |-> TimeStr(proc[p].boundary),
                                        count |-> proc[p].tenant_export_count,
                                        status |-> "SUCCESS"]]]
    /\ UNCHANGED <<syncVars, auxVars, now, db, ledger, temp, backups, lockFile, flockHolder,
                   outFiles, runs, lastWritten, lastRename>>

\* export_incremental: the tenant loop is over; the summary is returned.
IncFinish(p) ==
    /\ proc[p].pc = "tenant"
    /\ proc[p].tenants = <<>>
    /\ proc' = [proc EXCEPT
            ![p].pc = "exit",
            ![p].total_invoices = proc[p].total_export_count,
            ![p].summary = [success |-> TRUE, kind |-> "incremental",
                            total_tenants |-> proc[p].total_tenant_count,
                            new_invoices |-> proc[p].total_export_count]]
    /\ UNCHANGED <<syncVars, auxVars, now, db, ledger, temp, backups, lockFile, flockHolder,
                   outFiles, runs, lastWritten, lastRename>>

\* export_incremental: the with block is left: __exit__ calls release_lock.
Exit(p) ==
    /\ proc[p].pc = "exit"
    /\ ReleaseLock(p)
    /\ proc' = [proc EXCEPT ![p].pc = "done",
                            ![p].lock_file = IF @ = "open" THEN "closed" ELSE @]
    /\ UNCHANGED <<syncVars, auxVars, now, db, ledger, temp, backups, outFiles, runs,
                   lastWritten, lastRename>>

\* export_all: the temporary connection and get_tenant_country_groups; every
\* group is submitted to the pool.
FullConnect(p) ==
    /\ proc[p].pc = "full_connect"
    /\ LET groups == GetTenantCountryGroups(db, proc[p].tenant_id)
       IN  proc' = [proc EXCEPT ![p].pc = "full_pool",
                                ![p].groups = groups,
                                ![p].pending = 1..Len(groups)]
    /\ UNCHANGED <<syncVars, auxVars, now, db, ledger, temp, backups, lockFile, flockHolder,
                   outFiles, runs, lastWritten, lastRename>>

\* export_all: the connection or the enumeration raises.
FullConnectFails(p) ==
    /\ proc[p].pc = "full_connect"
    /\ proc' = [proc EXCEPT ![p].pc = "done",
                            ![p].summary = [success |-> FALSE, kind |-> "error"]]
    /\ UNCHANGED <<syncVars, auxVars, now, db, ledger, temp, backups, lockFile, flockHolder,
                   outFiles, runs, lastWritten, lastRename>>

\* export_all: a pool worker completes process_group for one submitted group;
\* as_completed hands its result to the collecting loop.
FullGroup(p, i, raised) ==
    /\ proc[p].pc = "full_pool"
    /\ i \in proc[p].pending
    /\ LET g == proc[p].groups[i]
       IN  \E failed \in FailureSets(db, proc[p], g, raised) :
             LET res == GroupResult(db, proc[p], g, raised, failed)
                 pr == AfterGroup(proc[p], res, failed)
             IN  /\ proc' = [proc EXCEPT ![p] = [pr EXCEPT !.pending = @ \ {i}]]
                 /\ outFiles' = outFiles \cup WrittenFiles(db, proc[p], g, raised, failed)
    /\ UNCHANGED <<syncVars, auxVars, now, db, ledger, temp, backups, lockFile, flockHolder,
                   runs, lastWritten, lastRename>>

\* ------------------------------------------------ export_all's pool
\* ThreadPoolExecutor(max_workers=self.num_threads): the threads that take
\* work, whatever the number of submitted groups.
PoolWorkersPerTask(n, total) == total
PoolWorkers(n, total) == n

\* "with self.lock:" is entered when no thread holds the lock.
LockAlwaysFree(owner) == TRUE
LockFree(owner) == owner = 0

PoolUnchanged == UNCHANGED <<syncVars, relayVars, beatVars, status_reply, queryVars,
                             lockVars, moreVars, now, exportVars>>

\* A group that export_all has not submitted yet.
NewTask == [pc |-> "new", left |-> 0, ok |-> 0, reg |-> 0, status |-> "none"]

PoolInit ==
    /\ num_threads \in 1..MaxThreads
    /\ pdry \in BOOLEAN
    /\ pparts \in UNION {[1..n -> 0..MaxValid] : n \in 0..MaxGroups}
    /\ ptask = [i \in 1..Len(pparts) |-> NewTask]
    /\ stats_lock = 0 /\ pstats = ZeroStats /\ completed_count = 0 /\ ppc = "submit"

\* The groups whose process_group call is running in a pool thread.
Running == {i \in 1..Len(pparts) :
               ptask[i].pc \notin {"new", "queued", "finished"}}

\* export_all: executor.submit(self.process_group, ...) for every group, in
\* list order; then the collecting loop.
PoolSubmit ==
    /\ ppc = "submit"
    /\ ptask' = [i \in 1..Len(pparts) |-> [ptask[i] EXCEPT !.pc = "queued"]]
    /\ ppc' = "collect"
    /\ UNCHANGED <<num_threads, pdry, pparts, stats_lock, pstats, completed_count>>
    /\ PoolUnchanged

\* A pool thread takes the next work item, the first group still queued, and
\* enters process_group; the pool has PoolWorkers threads.
TTake(i) ==
    /\ ptask[i].pc = "queued"
    /\ \A j \in 1..(i - 1) : ptask[j].pc # "queued"
    /\ Cardinality(Running) < PoolWorkers(num_threads, Len(pparts))
    /\ ptask' = [ptask EXCEPT ![i].pc = "query"]
    /\ UNCHANGED <<num_threads, pdry, pparts, stats_lock, pstats, completed_count, ppc>>
    /\ PoolUnchanged

\* process_group: the connection, get_invoices_for_group and the mkdir of
\* write_invoice_files. An exception of these gives the error result; an
\* empty list gives no_data; else write_invoice_files, which in a dry run
\* returns len(invoices) at once. The main thread, blocked in as_completed,
\* collects a result as soon as the call returns: that touches only its own
\* locals, so it is taken with the step that ends the call.
TQuery(i, raised) ==
    /\ ptask[i].pc = "query"
    /\ LET n == pparts[i]
       IN  IF raised \/ n = 0
           THEN /\ ptask' = [ptask EXCEPT ![i].pc = "finished",
                               ![i].status = IF raised THEN "error" ELSE "no_data"]
                /\ completed_count' = completed_count + 1
           ELSE /\ ptask' = [ptask EXCEPT ![i].pc = IF pdry THEN "stats" ELSE "write",
                                          ![i].left = IF pdry THEN 0 ELSE n,
                                          ![i].ok = IF pdry THEN n ELSE 0]
                /\ UNCHANGED completed_count
    /\ UNCHANGED <<num_threads, pdry, pparts, stats_lock, pstats, ppc>>
    /\ PoolUnchanged

\* write_invoice_files, the loop: the next k files are written, and then
\* either the loop has ended, back in process_group, or the write of the
\* file after them raises and the except block goes for the lock.
TWriteFiles(i, k) ==
    /\ ptask[i].pc = "write"
    /\ k <= ptask[i].left
    /\ IF k = ptask[i].left
       THEN ptask' = [ptask EXCEPT ![i].pc = "stats", ![i].ok = @ + k, ![i].left = 0]
       ELSE ptask' = [ptask EXCEPT ![i].pc = "failed", ![i].ok = @ + k,
                                   ![i].left = @ - (k + 1)]
    /\ UNCHANGED <<num_threads, pdry, pparts, stats_lock, pstats, completed_count, ppc>>
    /\ PoolUnchanged

\* "with self.lock: self.stats['failed_files'] += 1": the lock is taken and
\* the counter is read.
TFailedRead(i) ==
    /\ ptask[i].pc = "failed"
    /\ LockFree(stats_lock)
    /\ stats_lock' = i
    /\ ptask' = [ptask EXCEPT ![i].pc = "failed_write", ![i].reg = pstats.failed_files]
    /\ UNCHANGED <<num_threads, pdry, pparts, pstats, completed_count, ppc>>
    /\ PoolUnchanged

\* The counter is written and the lock is released.
TFailedWrite(i) ==
    /\ ptask[i].pc = "failed_write"
    /\ pstats' = [pstats EXCEPT !.failed_files = ptask[i].reg + 1]
    /\ stats_lock' = 0
    /\ ptask' = [ptask EXCEPT ![i].pc = "write", ![i].reg = 0]
    /\ UNCHANGED <<num_threads, pdry, pparts, completed_count, ppc>>
    /\ PoolUnchanged

\* process_group, "with self.lock:": the lock is taken and total_invoices is
\* read.
TTotalRead(i) ==
    /\ ptask[i].pc = "stats"
    /\ LockFree(stats_lock)
    /\ stats_lock' = i
    /\ ptask' = [ptask EXCEPT ![i].pc = "total_write", ![i].reg = pstats.total_invoices]
    /\ UNCHANGED <<num_threads, pdry, pparts, pstats, completed_count, ppc>>
    /\ PoolUnchanged

\* total_invoices += len(invoices) is written and successful_files is read.
TTotalWrite(i) ==
    /\ ptask[i].pc = "total_write"
    /\ pstats' = [pstats EXCEPT !.total_invoices = ptask[i].reg + pparts[i]]
    /\ ptask' = [ptask EXCEPT ![i].pc = "ok_write", ![i].reg = pstats.successful_files]
    /\ UNCHANGED <<num_threads, pdry, pparts, stats_lock, completed_count, ppc>>
    /\ PoolUnchanged

\* successful_files += successful_count is written, the lock is released and
\* process_group returns the success result, which the main thread collects.
TOkWrite(i) ==
    /\ ptask[i].pc = "ok_write"
    /\ pstats' = [pstats EXCEPT !.successful_files = ptask[i].reg + ptask[i].ok]
    /\ stats_lock' = 0
    /\ ptask' = [ptask EXCEPT ![i].pc = "finished", ![i].status = "success",
                              ![i].reg = 0, ![i].ok = 0]
    /\ completed_count' = completed_count + 1
    /\ UNCHANGED <<num_threads, pdry, pparts, ppc>>
    /\ PoolUnchanged

\* The groups whose process_group call has returned.
Finished == {i \in 1..Len(pparts) : ptask[i].pc = "finished"}

\* export_all: as_completed has given every future and the executor has shut
\* down: the summary is built.
PoolSummary ==
    /\ ppc = "collect"
    /\ completed_count = Len(pparts)
    /\ ppc' = "done"
    /\ UNCHANGED <<num_threads, pdry, pparts, ptask, stats_lock, pstats, completed_count>>
    /\ PoolUnchanged

\* The number of results with a status.
CountStatus(results, st) ==
    Cardinality({i \in 1..Len(results) : results[i].status = st})

\* InvoiceExporter.stats: the counters an exporter keeps.
Stats(pr) ==
    [total_groups |-> Len(pr.groups),
     total_invoices |-> pr.total_invoices,
     successful_files |-> pr.successful_files,
     failed_files |-> pr.failed_files]

\* export_all: every future is done: the summary.
FullFinish(p) ==
    /\ proc[p].pc = "full_pool"
    /\ proc[p].pending = {}
    /\ proc' = [proc EXCEPT
            ![p].pc = "done",
            ![p].summary =
                [success |-> CountStatus(proc[p].results, "error") = 0,
                 kind |-> "full",
                 total_groups |-> Len(proc[p].groups),
                 successful_groups |-> CountStatus(proc[p].results, "success"),
                 failed_groups |-> CountStatus(proc[p].results, "error"),
                 no_data_groups |-> CountStatus(proc[p].results, "no_data"),
                 total_invoices |-> proc[p].total_invoices,
                 successful_files |-> proc[p].successful_files,
                 failed_files |-> proc[p].failed_files]]
    /\ UNCHANGED <<syncVars, auxVars, now, db, ledger, temp, backups, lockFile, flockHolder,
                   outFiles, runs, lastWritten, lastRename>>

\* Time passes. A run reads the clock when it starts (the backup's name and
\* the boundary), so the clock advances between runs.
Tick ==
    /\ now < TIME_BUFFER_SECONDS + MaxClock
    /\ \A p \in Procs : proc[p].pc \in Stopped
    /\ now' = now + 1
    /\ UNCHANGED <<syncVars, auxVars, exportVars>>

NeverWritten == <<>>
NoRename == [tenant |-> <<>>, replaced |-> FALSE]

\* The export side before any run: no state directory content, no process.
ExportIdle ==
    /\ db = {}
    /\ ledger = NoFile
    /\ temp = NoFile
    /\ backups = {}
    /\ lockFile = FALSE
    /\ flockHolder = 0
    /\ outFiles = {}
    /\ proc = [p \in Procs |-> ProcIdle]
    /\ runs = 0
    /\ lastWritten = [t \in Tenants |-> NeverWritten]
    /\ lastRename = NoRename

\* ------------------------------------------------------- specifications
vars == <<syncVars, auxVars, now, exportVars>>

\* The server process and its request lock.
Init == SyncInit /\ AuxIdle /\ now = TIME_BUFFER_SECONDS /\ ExportIdle

Next ==
    \/ \E r \in Reqs, k \in Kinds : Arrive(r, k)
    \/ \E r \in Reqs : Handle(r)
    \/ \E r \in Reqs : GenStart(r)
    \/ \E r \in Reqs : GenSpawn(r)
    \/ \E r \in Reqs, o \in {"returned", "raised"} : WorkerFinish(r, o)
    \/ \E r \in Reqs : GenAwaitResult(r)
    \/ \E r \in Reqs : GenFinish(r)
    \/ \E r \in Reqs : Abandon(r)
    \/ \E r \in Reqs : DropUnstarted(r)

Spec == Init /\ [][Next]_vars

\* What the event loop and the operating system guarantee: a scheduled
\* handler runs; the transport pulls the first event of a generator or drops
\* it; a suspended generator is resumed, or closed when the client has gone;
\* the worker thread comes to its end.
Fair ==
    \A r \in Reqs :
        /\ WF_vars(Handle(r))
        /\ WF_vars(GenStart(r) \/ DropUnstarted(r))
        /\ WF_vars(GenSpawn(r) \/ GenAwaitResult(r) \/ GenFinish(r) \/ Abandon(r))
        /\ WF_vars(\E o \in {"returned", "raised"} : WorkerFinish(r, o))

SpecLive == Init /\ [][Next]_vars /\ Fair

\* The server process with its status endpoint.
NextStatus ==
    \/ Next
    \/ StatusQuery

SpecStatus == Init /\ [][NextStatus]_vars

\* One stream of the server, consumed to its end, with its worker threads.
InitRelay ==
    /\ rpc = [r \in Reqs |-> "idle"]
    /\ rkind = [r \in Reqs |-> "invoices"]
    /\ worker = [r \in Reqs |-> "none"]
    /\ gexit = [r \in Reqs |-> "none"]
    /\ nAcquire = [r \in Reqs |-> 0]
    /\ nRelease = [r \in Reqs |-> 0]
    /\ now = TIME_BUFFER_SECONDS
    /\ RelayInit
    /\ clk = 0 /\ last_heartbeat = 0 /\ bpc = "none" /\ silent_from = -1 /\ beats = 0
    /\ status_reply = NoReply
    /\ OtherIdle
    /\ ExportIdle

NextRelay ==
    \/ RStart
    \/ RSpawn
    \/ \E t \in Threads : EmitLog(t)
    \/ EmitProgress
    \/ \E res \in Returned \cup Raised : WorkerEnd(res)
    \/ RLoopTop
    \/ RLogGet
    \/ RLogTimeout
    \/ RProgressGet
    \/ \E due \in BOOLEAN : RBeatSleep(due)
    \/ RDrainLog
    \/ RDrainProgress
    \/ RFinish

SpecRelay == InitRelay /\ [][NextRelay]_vars

\* The streaming loop of one invoices stream, on the clock, while its worker
\* runs.
InitBeat ==
    /\ SyncInit
    /\ skind = "invoices" /\ gpc = "none" /\ task = "none" /\ result = "none"
    /\ loopBound = FALSE /\ log_queue = <<>> /\ progress_queue = <<>>
    /\ emitted = <<>> /\ events = <<>>
    /\ BeatInit
    /\ status_reply = NoReply
    /\ OtherIdle
    /\ now = TIME_BUFFER_SECONDS
    /\ ExportIdle

NextBeat ==
    \/ BFallSilent
    \/ \E d \in 0..LOG_WAIT : BLogGet(d)
    \/ BLogTimeout
    \/ \E d \in 0..PROGRESS_WAIT : BProgressGet(d)
    \/ BProgressTimeout
    \/ BBeat
    \/ BSleep

SpecBeat == InitBeat /\ [][NextBeat]_vars

\* One POST /api/query, for every body.
InitQuery ==
    /\ SyncInit /\ StreamIdle /\ now = TIME_BUFFER_SECONDS /\ ExportIdle
    /\ QueryInit /\ LockIdle /\ PoolIdle /\ MoreIdle

NextQuery == query_agent

SpecQuery == InitQuery /\ [][NextQuery]_vars

\* Processes that call acquire_lock and release_lock of their StateManager
\* in any order.
InitLock ==
    /\ SyncInit /\ StreamIdle /\ now = TIME_BUFFER_SECONDS /\ ExportIdle
    /\ QueryIdle /\ LockIdle /\ PoolIdle /\ MoreIdle

NextLock ==
    \E p \in 1..MaxProcs :
        \/ \E creatable \in BOOLEAN : acquire_lock(p, creatable)
        \/ release_lock(p)

SpecLock == InitLock /\ [][NextLock]_vars

\* One full export, thread by thread, after its groups have been listed.
InitPool ==
    /\ SyncInit /\ StreamIdle /\ now = TIME_BUFFER_SECONDS /\ ExportIdle
    /\ QueryIdle /\ LockIdle /\ PoolInit /\ MoreIdle

NextPool ==
    \/ PoolSubmit
    \/ \E i \in 1..MaxGroups :
          /\ i <= Len(pparts)
          /\ \/ TTake(i)
             \/ \E raised \in BOOLEAN : TQuery(i, raised)
             \/ \E k \in 0..MaxValid : TWriteFiles(i, k)
             \/ TFailedRead(i)
             \/ TFailedWrite(i)
             \/ TTotalRead(i)
             \/ TTotalWrite(i)
             \/ TOkWrite(i)
    \/ PoolSummary

SpecPool == InitPool /\ [][NextPool]_vars

\* The watermark ledger under calls of update_export_time by one process at a
\* time, on a state directory that init_state_file has set up.
InitLedger ==
    /\ SyncInit /\ AuxIdle /\ now = TIME_BUFFER_SECONDS
    /\ db = {} /\ backups = {} /\ lockFile = FALSE /\ flockHolder = 0
    /\ outFiles = {} /\ runs = 0
    /\ ledger = EmptyFile /\ temp = NoFile
    /\ proc = [p \in Procs |-> ProcIdle]
    /\ lastWritten = [t \in Tenants |-> NeverWritten]
    /\ lastRename = NoRename

NextLedger ==
    \/ \E t \in Tenants, n \in 0..MaxStamp, dry \in BOOLEAN :
          LedgerCall(1, t, n, n, dry)
    \/ UpdRead(1)
    \/ UpdWrite(1)
    \/ UpdAppend(1)
    \/ UpdRename(1)
    \/ Crash(1)
    \/ CrashTorn(1)

SpecLedger == InitLedger /\ [][NextLedger]_vars

\* A step of an incremental pass of process p.
IncStep(p) ==
    \/ InitStateFile(p)
    \/ InitRaises(p)
    \/ Enter(p)
    \/ Connect(p)
    \/ ConnectFails(p)
    \/ TenantBegin(p)
    \/ \E raised \in BOOLEAN : IncGroup(p, raised)
    \/ CallUpdate(p)
    \/ UpdRead(p)
    \/ UpdWrite(p)
    \/ UpdAppend(p)
    \/ UpdRename(p)
    \/ IncFinish(p)
    \/ Exit(p)

\* A step of a full export of process p.
FullStep(p) ==
    \/ FullConnect(p)
    \/ FullConnectFails(p)
    \/ \E i \in 1..Len(AllKeys), raised \in BOOLEAN : FullGroup(p, i, raised)
    \/ FullFinish(p)

\* The source table when the runs start: at most MaxRecs of the rows.
InitExport ==
    /\ SyncInit /\ AuxIdle /\ now = TIME_BUFFER_SECONDS
    /\ db \in {d \in SUBSET RowPool : Cardinality(d) <= MaxRecs}
    /\ ledger = NoFile /\ temp = NoFile /\ backups = {}
    /\ lockFile = FALSE /\ flockHolder = 0 /\ outFiles = {} /\ runs = 0
    /\ proc = [p \in Procs |-> ProcIdle]
    /\ lastWritten = [t \in Tenants |-> NeverWritten]
    /\ lastRename = NoRename

\* One exporting process: incremental passes, one after another, each of
\* which returns or raises; with or without dry_run, over all tenants or one.
NextRun ==
    \/ \E dry \in BOOLEAN, tid \in {<<>>, T_1} : StartRun(1, "incremental", dry, tid)
    \/ IncStep(1)
    \/ Tick

SpecRun == InitExport /\ [][NextRun]_vars

\* One exporting process: full exports, one after another, with or without
\* dry_run, over all tenants or one.
NextFull ==
    \/ \E dry \in BOOLEAN, tid \in {<<>>, T_1} : StartRun(1, "full", dry, tid)
    \/ FullStep(1)

SpecFull == InitExport /\ [][NextFull]_vars

\* The ledgers a run can find at startup: none, or up to MaxLedgerLines lines,
\* each a line update_export_time wrote, a line cut short after the time, or
\* a line of something else.
StartLines ==
    { NewLine(T_1, TimeStr(0), 0, "SUCCESS"),
      NewLine(T_T1, TimeStr(0), 1, "SUCCESS"),
      T_1 \o <<"|", TimeStr(0), NL>>,
      <<"x", NL>> }
StartLedgers ==
    {NoFile} \cup
    UNION { {[exists |-> TRUE, lines |-> l] : l \in [1..n -> StartLines]} :
              n \in 0..MaxLedgerLines }

\* One exporting process that finds such a ledger: incremental passes over
\* all tenants, not dry runs.
InitStartup ==
    /\ SyncInit /\ AuxIdle /\ now = TIME_BUFFER_SECONDS
    /\ db \in {d \in SUBSET RowPool : Cardinality(d) <= 1}
    /\ ledger \in StartLedgers /\ temp = NoFile /\ backups = {}
    /\ lockFile = FALSE /\ flockHolder = 0 /\ outFiles = {} /\ runs = 0
    /\ proc = [p \in Procs |-> ProcIdle]
    /\ lastWritten = [t \in Tenants |-> NeverWritten]
    /\ lastRename = NoRename

NextStartup ==
    \/ StartRun(1, "incremental", FALSE, <<>>)
    \/ IncStep(1)

SpecStartup == InitStartup /\ [][NextStartup]_vars

\* Several exporting processes (the API's worker thread, a scheduled CLI job)
\* on the same state directory, each run an incremental pass or a full export
\* over all tenants, not a dry run, which a crash can end at any step; the
\* source table holds the valid rows of the first tenant.
InitProcs ==
    /\ SyncInit /\ AuxIdle /\ now = TIME_BUFFER_SECONDS + MaxClock
    /\ db = {r \in RowPool : r.tenant = T_1 /\ r.valid}
    /\ ledger = NoFile /\ temp = NoFile /\ backups = {}
    /\ lockFile = FALSE /\ flockHolder = 0 /\ outFiles = {} /\ runs = 0
    /\ proc = [p \in Procs |-> ProcIdle]
    /\ lastWritten = [t \in Tenants |-> NeverWritten]
    /\ lastRename = NoRename

NextProcs ==
    \E p \in Procs :
        \/ \E mode \in {"incremental", "full"} : StartRun(p, mode, FALSE, <<>>)
        \/ IncStep(p)
        \/ FullStep(p)
        \/ Crash(p)
        \/ CrashTorn(p)

SpecProcs == InitProcs /\ [][NextProcs]_vars

\* Time passes while runs are in progress.
Elapse ==
    /\ now < TIME_BUFFER_SECONDS + MaxClock
    /\ now' = now + 1
    /\ UNCHANGED <<syncVars, auxVars, exportVars>>

\* Several exporting processes on the same state directory, each run an
\* incremental pass over all tenants, not a dry run, started at any time; the
\* source table holds the valid rows of the first tenant.
InitOverlap ==
    /\ SyncInit /\ AuxIdle /\ now = TIME_BUFFER_SECONDS
    /\ db = {r \in RowPool : r.tenant = T_1 /\ r.valid}
    /\ ledger = NoFile /\ temp = NoFile /\ backups = {}
    /\ lockFile = FALSE /\ flockHolder = 0 /\ outFiles = {} /\ runs = 0
    /\ proc = [p \in Procs |-> ProcIdle]
    /\ lastWritten = [t \in Tenants |-> NeverWritten]
    /\ lastRename = NoRename

NextOverlap ==
    \/ \E p \in Procs :
          \/ StartRun(p, "incremental", FALSE, <<>>)
          \/ IncStep(p)
    \/ Elapse

SpecOverlap == InitOverlap /\ [][NextOverlap]_vars

\* A run of process p calls update_export_time for tenant t with the
\* boundary n; the calls are counted as runs.
WriterCall(p, t, n) ==
    /\ proc[p].pc = "idle"
    /\ runs < MaxRuns
    /\ runs' = runs + 1
    /\ proc' = [proc EXCEPT ![p] =
                  [ProcIdle EXCEPT !.pc = "upd_read", !.standalone = TRUE,
                                   !.upd = [tenant |-> t, time |-> TimeStr(n),
                                            count |-> n, status |-> "SUCCESS"]]]
    /\ UNCHANGED <<syncVars, auxVars, now, db, ledger, temp, backups, lockFile, flockHolder,
                   outFiles, lastWritten, lastRename>>

\* Several processes call update_export_time on the same ledger, at any
\* time and each for a tenant of its own; no process dies.
NextWriters ==
    \E p \in Procs :
        \/ \E n \in 0..MaxStamp :
              /\ p <= Len(TenantOrder)
              /\ WriterCall(p, TenantOrder[p], n)
        \/ UpdRead(p)
        \/ UpdWrite(p)
        \/ UpdAppend(p)
        \/ UpdRename(p)

SpecWriters == InitLedger /\ [][NextWriters]_vars

\* ------------------------------------------ the files of one partition
\* Characters an invoice number is made of here: a letter, the underscore
\* and two of the characters clean_filename replaces.
NoChars == {"A", "_", "/", ":"}

\* The characters of the class [\\/:"*?<>|] of clean_filename.
Special == {"\\", "/", ":", "\"", "*", "?", "<", ">", "|"}

\* DATE_FORMAT(fissue_date, '%Y%m%d') of two days.
IssueDates == {<<"2", "0", "2", "4", "0", "1", "0", "1">>,
               <<"2", "0", "2", "4", "0", "1", "0", "2">>}

\* finvoice_no: not null and not empty.
InvoiceNos == UNION {[1..n -> NoChars] : n \in 1..MaxNoLen}

Records == [invoice_no : InvoiceNos, issue_date : IssueDates]

\* clean_filename: re.sub(r'[\\/:"*?<>|]', '_', filename).
clean_filename(filename) ==
    [i \in 1..Len(filename) |-> IF filename[i] \in Special THEN "_" ELSE filename[i]]

\* write_invoice_files, the name of a record's file.
FileName(invoice, gz) ==
    invoice.issue_date \o <<"+">> \o clean_filename(invoice.invoice_no)
        \o <<".json">> \o (IF gz THEN <<".gz">> ELSE <<>>)

FileUnchanged == UNCHANGED <<syncVars, relayVars, beatVars, status_reply, queryVars,
                             lockVars, poolVars, sessVars, cfgVars, now, exportVars>>

\* write_invoice_files is called, not as a dry run, with the valid records of
\* a partition: up to MaxInvoices records, no two with the same issue date
\* and invoice number, into a directory with no file yet.
InitFiles ==
    /\ SyncInit /\ StreamIdle /\ QueryIdle /\ LockIdle /\ PoolIdle /\ SessIdle /\ CfgIdle
    /\ now = TIME_BUFFER_SECONDS /\ ExportIdle
    /\ compress \in BOOLEAN
    /\ winvoices \in UNION {{q \in [1..n -> Records] :
                                \A i, j \in 1..n : i # j => q[i] # q[j]} : n \in 1..MaxInvoices}
    /\ country_dir = {} /\ successful_count = 0 /\ wfailed = 0
    /\ wpc = "writing"

\* One pass of the loop: the file of the next record is opened with 'w' and
\* written.
WriteFile ==
    /\ wpc = "writing"
    /\ successful_count + wfailed < Len(winvoices)
    /\ country_dir' = country_dir
           \cup {FileName(winvoices[successful_count + wfailed + 1], compress)}
    /\ successful_count' = successful_count + 1
    /\ UNCHANGED <<compress, winvoices, wfailed, wpc>>
    /\ FileUnchanged

\* One pass of the loop in which open or json.dump raises: the failure is
\* counted and the loop goes on.
WriteFileFails ==
    /\ wpc = "writing"
    /\ successful_count + wfailed < Len(winvoices)
    /\ wfailed' = wfailed + 1
    /\ UNCHANGED <<compress, winvoices, country_dir, successful_count, wpc>>
    /\ FileUnchanged

\* "return successful_count": process_group reports it as 'processed'.
WriteReturn ==
    /\ wpc = "writing"
    /\ successful_count + wfailed = Len(winvoices)
    /\ wpc' = "returned"
    /\ UNCHANGED <<compress, winvoices, country_dir, successful_count, wfailed>>
    /\ FileUnchanged

NextFiles == WriteFile \/ WriteFileFails \/ WriteReturn

SpecFiles == InitFiles /\ [][NextFiles]_vars

\* ------------------------------------------ agent streams and interrupt
SessUnchanged == UNCHANGED <<syncVars, relayVars, beatVars, status_reply, queryVars,
                             lockVars, poolVars, fileVars, cfgVars, now, exportVars>>

\* InMemorySessionManager.register.
register(reg, session_id, client) == [reg EXCEPT ![session_id] = client]

\* InMemorySessionManager.unregister.
unregister(reg, session_id) ==
    IF reg[session_id] # 0 THEN [reg EXCEPT ![session_id] = 0] ELSE reg

\* stream_response up to the loop over receive_response: the client of the
\* call is connected and the query sent; a request with session_id registers
\* its client under that id at once. The client of call s is s.
StreamBegin(s, sid) ==
    /\ stream[s].pc = "none"
    /\ stream' = [stream EXCEPT ![s] =
                      [pc |-> "receiving", request_sid |-> sid, actual_session_id |-> sid,
                       session_id_sent |-> FALSE, session_registered |-> sid # 0,
                       registered_as |-> sid]]
    /\ _sessions' = IF sid # 0 THEN register(_sessions, sid, s) ELSE _sessions
    /\ UNCHANGED <<issued, interrupted>>
    /\ SessUnchanged

\* The init SystemMessage of a new session: the SDK gives the session an id
\* no session has had, and the call registers its client under it.
RecvInit(s) ==
    /\ stream[s].pc = "receiving"
    /\ stream[s].request_sid = 0 /\ ~stream[s].session_id_sent
    /\ issued < MaxSids
    /\ issued' = issued + 1
    /\ stream' = [stream EXCEPT ![s].actual_session_id = issued + 1,
                                 ![s].session_id_sent = TRUE,
                                 ![s].session_registered = TRUE,
                                 ![s].registered_as = issued + 1]
    /\ _sessions' = register(_sessions, issued + 1, s)
    /\ UNCHANGED interrupted
    /\ SessUnchanged

\* The ResultMessage, the last message of the response: its session_id is
\* the id the call has (fresh FALSE), or an id the SDK gave the conversation
\* when it continued it (fresh TRUE). actual_session_id takes it; a call
\* that has sent no session id yet registers under it.
RecvResult(s, fresh) ==
    /\ stream[s].pc = "receiving"
    /\ IF fresh THEN issued < MaxSids ELSE stream[s].actual_session_id # 0
    /\ LET msg_sid == IF fresh THEN issued + 1 ELSE stream[s].actual_session_id
           fallback == stream[s].request_sid = 0 /\ ~stream[s].session_id_sent
           reg == fallback /\ ~stream[s].session_registered
       IN  /\ issued' = IF fresh THEN issued + 1 ELSE issued
           /\ stream' = [stream EXCEPT
                  ![s].pc = "result",
                  ![s].actual_session_id = msg_sid,
                  ![s].session_id_sent = IF fallback THEN TRUE ELSE @,
                  ![s].session_registered = IF reg THEN TRUE ELSE @,
                  ![s].registered_as = IF reg THEN msg_sid ELSE @]
           /\ _sessions' = IF reg THEN register(_sessions, msg_sid, s) ELSE _sessions
    /\ UNCHANGED interrupted
    /\ SessUnchanged

\* The loop over receive_response is left, after the result or by an
\* exception or the consumer closing the generator: the finally block
\* unregisters actual_session_id when the call has registered.
StreamEnd(s) ==
    /\ stream[s].pc \in {"receiving", "result"}
    /\ _sessions' = IF stream[s].session_registered /\ stream[s].actual_session_id # 0
                     THEN unregister(_sessions, stream[s].actual_session_id)
                     ELSE _sessions
    /\ stream' = [stream EXCEPT ![s].pc = "ended"]
    /\ UNCHANGED <<issued, interrupted>>
    /\ SessUnchanged

\* POST /interrupt/{session_id}: InMemorySessionManager.interrupt looks the
\* client up and interrupts it.
Interrupt(sid) ==
    /\ interrupted' = [session_id |-> sid, client |-> _sessions[sid]]
    /\ interrupted' # interrupted
    /\ UNCHANGED <<_sessions, stream, issued>>
    /\ SessUnchanged

InitSessions ==
    /\ SyncInit /\ StreamIdle /\ QueryIdle /\ LockIdle /\ PoolIdle /\ FileIdle /\ CfgIdle
    /\ now = TIME_BUFFER_SECONDS /\ ExportIdle
    /\ SessIdle

NextSessions ==
    \/ \E s \in Streams : \E sid \in 0..OldSessions : StreamBegin(s, sid)
    \/ \E s \in Streams : RecvInit(s)
    \/ \E s \in Streams : \E fresh \in BOOLEAN : RecvResult(s, fresh)
    \/ \E s \in Streams : StreamEnd(s)
    \/ \E sid \in Sids : Interrupt(sid)

SpecSessions == InitSessions /\ [][NextSessions]_vars

\* ------------------------------------------------ switching the model
CfgUnchanged == UNCHANGED <<syncVars, relayVars, beatVars, status_reply, queryVars,
                            lockVars, poolVars, fileVars, sessVars, now, exportVars>>

_DEFAULT_FALLBACK == "glm"

\* PREDEFINED_CONFIGS; None is "".
PREDEFINED_CONFIGS ==
    [name \in {"glm", "claude-router"} |->
        IF name = "glm"
        THEN [name |-> "glm", base_url |-> "https://open.bigmodel.cn/api/anthropic",
              auth_token_env |-> "GLM_AUTH_TOKEN", timeout_ms |-> "3000000",
              model |-> "", small_fast_model |-> "", sonnet_model |-> "",
              opus_model |-> "", haiku_model |-> "", proxy_env |-> "",
              extra_env |-> {<<"CLAUDE_CODE_DISABLE_NONESSENTIAL_TRAFFIC", "1">>}]
        ELSE [name |-> "claude-router", base_url |-> "http://127.0.0.1:3456",
              auth_token_env |-> "CLAUDE_ROUTER_AUTH_TOKEN", timeout_ms |-> "600000",
              model |-> "", small_fast_model |-> "", sonnet_model |-> "",
              opus_model |-> "", haiku_model |-> "", proxy_env |-> "CLAUDE_ROUTER_PROXY",
              extra_env |-> {<<"DISABLE_TELEMETRY", "true">>,
                             <<"DISABLE_COST_WARNINGS", "true">>}]]

\* Names a caller passes to switch_config, and values of DEFAULT_MODEL_CONFIG.
ConfigNames == DOMAIN PREDEFINED_CONFIGS \cup {"", "gpt"}

\* DEFAULT_CONFIG: DEFAULT_MODEL_CONFIG, _DEFAULT_FALLBACK when it is absent
\* or names no configuration.
DEFAULT_CONFIG(given) ==
    LET d == IF given = "" THEN _DEFAULT_FALLBACK ELSE given
    IN  IF d \notin DOMAIN PREDEFINED_CONFIGS THEN _DEFAULT_FALLBACK ELSE d

\* ModelConfig.get_auth_token.
get_auth_token(config, env) == env[config.auth_token_env]

\* ModelConfig.get_proxy_settings: the value for https_proxy and http_proxy,
\* "" for None.
get_proxy_settings(config, env) ==
    IF config.proxy_env = "" THEN "" ELSE env[config.proxy_env]

\* switch_config, "if not auth_token".
TokenAny(auth_token) == FALSE
TokenMissing(auth_token) == auth_token = ""

\* switch_config, the value it returns.
SwitchReturns(env, config_name) ==
    /\ config_name \in DOMAIN PREDEFINED_CONFIGS
    /\ ~TokenMissing(get_auth_token(PREDEFINED_CONFIGS[config_name], env))

\* The model key of a configuration field.
ModelOf(config, k) ==
    CASE k = "ANTHROPIC_MODEL" -> config.model
      [] k = "ANTHROPIC_SMALL_FAST_MODEL" -> config.small_fast_model
      [] k = "ANTHROPIC_DEFAULT_SONNET_MODEL" -> config.sonnet_model
      [] k = "ANTHROPIC_DEFAULT_OPUS_MODEL" -> config.opus_model
      [] k = "ANTHROPIC_DEFAULT_HAIKU_MODEL" -> config.haiku_model

\* switch_config past its two checks: the environment it leaves.
SwitchEnv(env, config) ==
    LET auth_token == get_auth_token(config, env)
        proxy == get_proxy_settings(config, env)
    IN  [k \in EnvKeys |->
            IF \E e \in config.extra_env : e[1] = k
            THEN (CHOOSE e \in config.extra_env : e[1] = k)[2]
            ELSE CASE k = "ANTHROPIC_BASE_URL" -> config.base_url
                   [] k \in {"ANTHROPIC_AUTH_TOKEN", "ANTHROPIC_API_KEY"} -> auth_token
                   [] k = "API_TIMEOUT_MS" -> config.timeout_ms
                   [] k \in ModelKeys -> ModelOf(config, k)
                   [] k \in {"https_proxy", "http_proxy"} -> proxy
                   [] k \in proxy_keys \ {"https_proxy", "http_proxy"} -> ""
                   [] OTHER -> env[k]]

\* The state switch_config(config_name) leaves when called in the state
\* (current, env).
Switched(current, env, config_name) ==
    IF SwitchReturns(env, config_name)
    THEN [current |-> config_name, env |-> SwitchEnv(env, PREDEFINED_CONFIGS[config_name]),
          ret |-> [config_name |-> config_name, returned |-> TRUE]]
    ELSE [current |-> current, env |-> env,
          ret |-> [config_name |-> config_name, returned |-> FALSE]]

\* ConfigManager.switch_config.
switch_config(config_name) ==
    LET r == Switched(_current_config, environ, config_name)
    IN  /\ _current_config' = r.current
        /\ environ' = r.env
        /\ switch_ret' = r.ret
    /\ CfgUnchanged

\* get_available_configs: the names reported with is_active true.
ReportedActive ==
    {name \in DOMAIN PREDEFINED_CONFIGS : PREDEFINED_CONFIGS[name].name = _current_config}

\* The process after "config_manager = ConfigManager()": the environment it
\* was started with, tokens and proxy given or not, and the default
\* configuration applied by _detect_current_config.
InitConfig ==
    /\ SyncInit /\ StreamIdle /\ QueryIdle /\ LockIdle /\ PoolIdle /\ FileIdle /\ SessIdle
    /\ now = TIME_BUFFER_SECONDS /\ ExportIdle
    /\ \E given \in ConfigNames, set \in SUBSET (GivenKeys \cup {"ANTHROPIC_MODEL", "HTTPS_PROXY"}) :
          LET env0 == [k \in EnvKeys |-> IF k \in set THEN "given" ELSE ""]
              r == Switched(DEFAULT_CONFIG(given), env0, DEFAULT_CONFIG(given))
          IN  /\ _current_config = r.current
              /\ environ = r.env
              /\ switch_ret = r.ret

NextConfig == \E config_name \in ConfigNames : switch_config(config_name)

SpecConfig == InitConfig /\ [][NextConfig]_vars

\* ================================================================ claims
\* A request holds the request lock from its acquisition to its release.
Holds(r) == nAcquire[r] > nRelease[r]
Holders(k) == {r \in Reqs : rkind[r] = k /\ Holds(r)}

\* C1. Of the start requests for one kind that are in the server together, at
\* most one holds the request lock and owns an event stream; a request handled
\* while the lock is held is rejected (409) before any generator exists, and
\* that rejection changes neither the lock nor the run entry.
C1_AtMostOneHolder ==
    \A k \in Kinds :
        /\ Cardinality(Holders(k)) <= 1
        /\ Cardinality({r \in Reqs : rkind[r] = k /\ rpc[r] \in Live}) <= 1
        /\ \A r \in Reqs : rpc[r] \in Live /\ rkind[r] = k => r \in Holders(k) /\ locked[k]
        /\ \A r \in Reqs : rpc[r] = "rejected" => nAcquire[r] = 0 /\ gexit[r] = "none"

C1_HandleStep ==
    \A r \in Reqs :
        rpc[r] = "pending" /\ rpc'[r] # "pending" =>
            IF locked[rkind[r]]
            THEN rpc'[r] = "rejected" /\ locked' = locked /\ current_sync' = current_sync
            ELSE rpc'[r] = "created" /\ locked'[rkind[r]] /\ Holders(rkind[r]) = {}

C1_BusyRejection == []C1_AtMostOneHolder /\ [][C1_HandleStep]_vars

\* Two requests for the same kind were in the server together: one streams,
\* the other one was rejected.
C1_Witness ==
    \E r1, r2 \in Reqs :
        /\ r1 # r2 /\ rkind[r1] = rkind[r2]
        /\ rpc[r1] \in Suspended /\ rpc[r2] = "rejected"

\* C2. A run takes the request lock once and releases it once: whichever way a
\* started generator leaves its try block (normal end, error, abandonment by
\* the client), the release runs, and right after it the lock of that kind is
\* free and its run entry is cleared.
C2_Counts ==
    \A r \in Reqs :
        /\ nAcquire[r] <= 1 /\ nRelease[r] <= nAcquire[r]
        /\ rpc[r] \in Live => nAcquire[r] = 1 /\ nRelease[r] = 0
        /\ rpc[r] = "closed" => nAcquire[r] = 1 /\ nRelease[r] = 1 /\ gexit[r] # "none"

C2_ExitStep ==
    \A r \in Reqs :
        rpc[r] \in Suspended /\ rpc'[r] \notin Suspended =>
            /\ rpc'[r] = "closed"
            /\ nRelease'[r] = 1
            /\ ~locked'[rkind[r]]
            /\ current_sync'[rkind[r]] = None

C2_ReleasedOnEveryExit == []C2_Counts /\ [][C2_ExitStep]_vars

\* Generators have left on each of the three paths.
C2_Witness ==
    \E r1, r2, r3 \in Reqs :
        /\ gexit[r1] = "normal" /\ gexit[r2] = "error" /\ gexit[r3] = "abandoned"
        /\ \A k \in Kinds : ~locked[k]

\* C3. While the worker of an abandoned stream is still running, the request
\* lock of its kind stays held, so no second worker of that kind runs in the
\* process.
C3_LockHeldUntilWorkerDone ==
    /\ \A r \in Reqs :
          gexit[r] = "abandoned" /\ worker[r] = "running" => locked[rkind[r]] /\ Holds(r)
    /\ \A r1, r2 \in Reqs :
          r1 # r2 /\ rkind[r1] = rkind[r2] => ~(worker[r1] = "running" /\ worker[r2] = "running")

\* The tenants a ledger content has a line for.
Recorded(file) == {t \in Tenants : LinesOf(file.lines, t) # <<>>}

\* The lines update_export_time can write.
WellFormed(line) ==
    \E t \in Tenants, n \in Times, c \in 0..(MaxRecs + MaxStamp + 1) :
        line = NewLine(t, TimeStr(n), c, "SUCCESS")

\* C6. After any sequence of update_export_time calls the ledger holds at most
\* one line per tenant, and that line is the one the tenant's latest update
\* wrote; it holds no other line.
C6_OneLinePerTenant ==
    /\ \A t \in Tenants :
          LinesOf(ledger.lines, t) =
              IF lastWritten[t] = NeverWritten THEN <<>> ELSE <<lastWritten[t]>>
    /\ Len(ledger.lines) = Cardinality({t \in Tenants : lastWritten[t] # NeverWritten})

\* Every tenant has a line, and the last update replaced its tenant's line.
C6_Witness ==
    /\ proc[1].pc = "idle"
    /\ Len(ledger.lines) = Cardinality(Tenants)
    /\ lastRename.replaced

\* C7. The ledger changes only by the rename at the end of update_export_time,
\* which installs a complete new ledger that still has every tenant recorded
\* before; a process death at any point of the update leaves the ledger as it
\* was, and no line of the ledger is ever half written.
C7_Complete ==
    /\ ledger.exists
    /\ \A i \in 1..Len(ledger.lines) : WellFormed(ledger.lines[i])

C7_Step ==
    /\ ledger' # ledger =>
          /\ \E p \in Procs : proc[p].pc = "upd_rename" /\ proc'[p].pc # "upd_rename"
          /\ ledger' = temp
          /\ Recorded(ledger) \subseteq Recorded(ledger')
    /\ \A p \in Procs :
          proc[p].pc # "crashed" /\ proc'[p].pc = "crashed" => ledger' = ledger

C7_AtomicReplace == []C7_Complete /\ [][C7_Step]_vars

\* The process died inside the write of the temporary file, which ends in a
\* torn line, while the ledger holds the lines of two tenants.
C7_Witness ==
    /\ proc[1].pc = "crashed"
    /\ temp.exists /\ temp.lines # <<>> /\ ~Complete(temp.lines[Len(temp.lines)])
    /\ Len(ledger.lines) >= 2
\* ---------------------------------------------------------------- C4
\* The phase of a run between entering the state manager (or, for a full
\* export, submitting the groups) and leaving it.
ExportPhase ==
    {"connect", "tenant", "group", "upd_read", "upd_write", "upd_append",
     "upd_rename", "exit", "full_pool"}

\* C4: a transactional run holds the cross-process file lock during its export
\* phase, so two invocations from different processes are never in the export
\* phase at the same time.
C4_ExclusiveExport ==
    \A p \in Procs, q \in Procs :
        (p # q /\ proc[p].pc \in ExportPhase) => proc[q].pc \notin ExportPhase

\* ---------------------------------------------------------------- C5
\* C5: once a run has completed, by returning its summary or by raising, the
\* process lock file does not exist.
C5_NoLockFileAfterRun ==
    \A p \in Procs : proc[p].pc \in {"done", "raised"} => ~lockFile

\* A second run raised after a first one had gone through the state manager
\* and left the ledger behind.
C5_Witness ==
    /\ proc[1].pc = "raised"
    /\ runs = MaxRuns
    /\ ledger.exists
    /\ ~lockFile

\* ---------------------------------------------------------------- C8..C10
\* An incremental pass of process 1 has returned its tenant summary.
PassDone ==
    /\ proc[1].pc = "done"
    /\ proc[1].mode = "incremental"
    /\ proc[1].summary.kind = "incremental"

\* The rows of tenant t in the window (last, boundary] of the finished pass.
WindowRows(t, last) ==
    {r \in db : r.tenant = t /\ InWindow(r, last, <<TimeStr(proc[1].boundary)>>)}

\* The one ledger line of tenant t is the given one.
HasLine(t, cnt) ==
    LinesOf(ledger.lines, t) = <<NewLine(t, TimeStr(proc[1].boundary), cnt, "SUCCESS")>>

\* The tenants the finished pass handled with no valid row in their window.
EmptyTenants ==
    {i \in 1..Len(proc[1].windows) :
        {r \in WindowRows(proc[1].windows[i].tenant, proc[1].windows[i].last_time) : r.valid} = {}}

\* C8 as stated: after an incremental pass, every enumerated tenant with zero
\* eligible new records has its watermark at the run boundary with count 0
\* and status SUCCESS.
C8_ZeroAdvancesAlways ==
    PassDone => \A i \in EmptyTenants : HasLine(proc[1].windows[i].tenant, 0)

\* C8, amended: the same after an incremental pass that is not a dry run.
C8_ZeroAdvances ==
    (PassDone /\ ~proc[1].dry_run) =>
        \A i \in EmptyTenants : HasLine(proc[1].windows[i].tenant, 0)

C8_Witness ==
    /\ PassDone /\ ~proc[1].dry_run
    /\ \E i \in EmptyTenants : HasLine(proc[1].windows[i].tenant, 0)

\* The sum of the processed counts of tenant t's success partitions.
RECURSIVE SumProcessed(_, _)
SumProcessed(results, t) ==
    IF results = <<>> THEN 0
    ELSE (IF Head(results).tenant = t /\ Head(results).status = "success"
          THEN Head(results).processed ELSE 0) + SumProcessed(Tail(results), t)

\* The tenants the finished pass handled without a prior watermark.
FirstTenants == {i \in 1..Len(proc[1].windows) : proc[1].windows[i].first}

\* Nothing went wrong for tenant t in the finished pass: no partition of it
\* raised, no file write failed, and each row in its window is valid.
CleanFor(t, last) ==
    /\ proc[1].failed_files = 0
    /\ \A j \in 1..Len(proc[1].results) :
          proc[1].results[j].tenant = t => proc[1].results[j].status # "error"
    /\ \A r \in WindowRows(t, last) : r.valid

C10_AllAtBoundaryAlways ==
    PassDone =>
        \A i \in 1..Len(proc[1].groups) :
            GetLastExportTime(ledger, proc[1].groups[i].tenant) = <<TimeStr(proc[1].boundary)>>

\* C10, amended: the same after an incremental pass that is not a dry run.
C10_AllAtBoundary ==
    (PassDone /\ ~proc[1].dry_run) =>
        \A i \in 1..Len(proc[1].groups) :
            GetLastExportTime(ledger, proc[1].groups[i].tenant) = <<TimeStr(proc[1].boundary)>>

\* A pass in which a partition raised left its tenant at the boundary.
C10_Witness ==
    /\ PassDone /\ ~proc[1].dry_run
    /\ \E j \in 1..Len(proc[1].results) :
          /\ proc[1].results[j].status = "error"
          /\ GetLastExportTime(ledger, proc[1].results[j].tenant) = <<TimeStr(proc[1].boundary)>>

\* ---------------------------------------------------------------- C11..C13
\* A full export of process 1 has returned, with the group summary or with
\* the failure summary of its except block.
FullReturned == proc[1].pc = "done" /\ proc[1].mode = "full"

\* The rows of a group that the query of a full export returns but that fail
\* validation.
InvalidRows(g) == {r \in RowsOf(db, g.tenant, g.country) : ~r.valid}

\* C11: a partition in which the query or a file write raised has status
\* error, its siblings are processed all the same, and every submitted
\* partition has exactly one result.
C11_FailureIsolation ==
    (FullReturned /\ proc[1].summary.kind = "full") =>
        /\ Len(proc[1].results) = Len(proc[1].groups)
        /\ \A i \in 1..Len(proc[1].groups) :
              Cardinality({j \in 1..Len(proc[1].results) :
                  /\ proc[1].results[j].tenant = proc[1].groups[i].tenant
                  /\ proc[1].results[j].country = proc[1].groups[i].country}) = 1
        /\ \A j \in 1..Len(proc[1].results) :
              proc[1].results[j].processed < proc[1].results[j].total
                  => proc[1].results[j].status = "error"

\* C12: a record that fails validation is left out of the output, is counted
\* in a skipped tally of the exporter, and does not make its partition an
\* error when another record of the partition is valid.
C12_SkippedTallied ==
    (FullReturned /\ proc[1].summary.kind = "full") =>
        /\ \A r \in outFiles : r.valid
        /\ \A j \in 1..Len(proc[1].results) :
              LET g == proc[1].results[j]
              IN  (InvalidRows(g) # {} /\ RowsOf(db, g.tenant, g.country) # InvalidRows(g)
                      /\ g.total > 0)
                      => g.status = "success"
        /\ LET seen == {r \in db : /\ ~r.valid
                                   /\ \E j \in 1..Len(proc[1].results) :
                                         /\ proc[1].results[j].tenant = r.tenant
                                         /\ proc[1].results[j].country = r.country
                                         /\ proc[1].results[j].status # "error"}
           IN  seen # {} =>
                  /\ "skipped" \in DOMAIN Stats(proc[1])
                  /\ Stats(proc[1]).skipped = Cardinality(seen)

\* C13: the summary a full export returns has success true exactly when no
\* partition has status error, and its three group counts add up to
\* total_groups.
C13_FullSummary ==
    FullReturned =>
        /\ proc[1].summary.success <=> CountStatus(proc[1].results, "error") = 0
        /\ "total_groups" \in DOMAIN proc[1].summary
        /\ proc[1].summary.successful_groups + proc[1].summary.failed_groups
              + proc[1].summary.no_data_groups = proc[1].summary.total_groups

\* ---------------------------------------------------------------- C14
\* C14: the summary of an incremental pass has the counts of success, no-data
\* and error partitions, and success true exactly when no partition has status
\* error.
C14_IncrementalSummary ==
    PassDone =>
        /\ proc[1].summary.success <=> CountStatus(proc[1].results, "error") = 0
        /\ {"successful_groups", "failed_groups", "no_data_groups"}
              \subseteq DOMAIN proc[1].summary

\* ---------------------------------------------------------------- C15..C19
\* The stream has yielded its sync_completed event.
StreamCompleted == events # <<>> /\ events[Len(events)].type = "sync_completed"

\* C15: every log line and every progress tick the worker threads emitted
\* during a run is delivered to the consumer exactly once, before the
\* sync_completed event.
C15_Lossless ==
    StreamCompleted =>
        \A i \in 1..Len(emitted) :
            Cardinality({j \in 1..Len(events) : events[j] = emitted[i]}) = 1

\* C16: the events of one thread are delivered in the order in which the
\* thread emitted them, log lines and progress ticks alike.
C16_ProducerOrder ==
    \A i \in 1..Len(events), j \in 1..Len(events) :
        (i < j /\ events[i].src \in Threads /\ events[i].src = events[j].src)
            => events[i].n < events[j].n

\* C18: sync_started is the first event of a stream, a terminal event
\* (sync_completed or error) is followed by no event, so there is at most one,
\* and a stream consumed to its end has one.
C18_OneTerminalLast ==
    /\ events # <<>> => events[1] = Started
    /\ \A i \in 1..Len(events) : Terminal(events[i]) => i = Len(events)
    /\ gpc \in {"yield_completed", "yield_error", "closed"} =>
          (events # <<>> /\ Terminal(events[Len(events)]))

\* A stream consumed to its end that relayed a log line, a progress tick and
\* a heartbeat before its sync_completed.
C18_Witness ==
    /\ gpc = "closed"
    /\ StreamCompleted
    /\ \E i \in 1..Len(events) : events[i].type = "log_message"
    /\ \E i \in 1..Len(events) : events[i].type = "progress_update"
    /\ \E i \in 1..Len(events) : events[i] = Heartbeat

\* C19: a run that ended with a fatal setup failure (no connection to the
\* source store, no state directory) ends its stream with the error event,
\* not with sync_completed, and the request lock is free afterwards.
C19_SetupFailureFails ==
    (gpc = "closed" /\ result \in {"connect_failed", "init_raised"}) =>
        /\ events[Len(events)] = ErrorEvent
        /\ ~locked[skind]

\* ---------------------------------------------------------------- C17
\* The silent window is over: SILENT_WINDOW has passed since the worker fell
\* silent.
WindowOver == silent_from # -1 /\ clk > silent_from + SILENT_WINDOW

\* C17: when the worker emits nothing for 35 seconds while it runs, exactly
\* one heartbeat is yielded in that window, wherever the window starts.
C17_OneHeartbeat == WindowOver => beats = 1

\* ---------------------------------------------------------------- C20
\* For each kind the lock is held exactly when a request holds it, and the
\* run entry is there exactly when the lock is held.
C20_EntryIffLocked ==
    \A k \in Kinds :
        /\ locked[k] <=> Holders(k) # {}
        /\ current_sync[k] # None <=> locked[k]
        /\ current_sync[k] # None => current_sync[k].status = "running"

\* A status query reports, for each kind, whether the lock is held, and
\* changes nothing of the lock manager or the streams.
C20_QueryStep ==
    status_reply' # status_reply =>
        /\ UNCHANGED <<syncVars, now>>
        /\ status_reply'.asked
        /\ status_reply'.invoices.is_running <=> Holders("invoices") # {}
        /\ status_reply'.basic_data.is_running <=> Holders("basic-data") # {}

\* C20: in every state the status query reports is_running exactly when a run
\* of the kind holds the request lock, the run entry is present exactly when
\* the lock is held, and the query changes no state.
C20_StatusIsPureRead == []C20_EntryIffLocked /\ [][C20_QueryStep]_vars

\* A status query answered while an invoices run held the lock and no
\* basic-data run did.
C20_Witness ==
    /\ status_reply.asked
    /\ status_reply.invoices.is_running /\ ~status_reply.basic_data.is_running
    /\ Holders("invoices") # {} /\ Holders("basic-data") = {}

\* ---------------------------------------------------------------- C21
\* A field of a body that is there and has a character other than a blank.
NonBlank(v) == v # Null /\ StripBlanks(v) # <<>>

\* C21 as stated: the request is accepted exactly when tenant_id and prompt
\* are non-blank and a session_id is present (a non-empty string) or
\* country_code and language are both present and non-blank; a rejected
\* request gets 422 and no stream.
C21_AcceptedIffStated ==
    qresp.status_code # 0 =>
        /\ qresp.status_code = 200 <=>
              /\ NonBlank(qreq.tenant_id) /\ NonBlank(qreq.prompt)
              /\ \/ qreq.session_id \notin {Null, <<>>}
                 \/ NonBlank(qreq.country_code) /\ NonBlank(qreq.language)
        /\ qresp.status_code # 200 => (qresp.status_code = 422 /\ ~qresp.stream)

\* C21, amended: the request is accepted exactly when tenant_id and prompt
\* are non-blank, language and country_code are each absent or non-blank, and
\* the session_id is a non-empty string or country_code and language are both
\* there; every other request gets 422 and no stream.
C21_Accepted ==
    qresp.status_code # 0 =>
        /\ qresp.status_code = 200 <=>
              /\ NonBlank(qreq.tenant_id) /\ NonBlank(qreq.prompt)
              /\ qreq.language = Null \/ NonBlank(qreq.language)
              /\ qreq.country_code = Null \/ NonBlank(qreq.country_code)
              /\ \/ qreq.session_id \notin {Null, <<>>}
                 \/ NonBlank(qreq.country_code) /\ NonBlank(qreq.language)
        /\ qresp.status_code = 200 <=> qresp.stream
        /\ qresp.status_code # 200 => qresp.status_code = 422

\* A continuation request without country_code and language was accepted.
C21_Witness ==
    /\ qresp.status_code = 200 /\ qresp.stream
    /\ qreq.session_id \notin {Null, <<>>}
    /\ qreq.country_code = Null /\ qreq.language = Null

\* ---------------------------------------------------------------- C22
\* C22: a run with dry_run true writes no output file and changes no
\* persisted state: in each of its steps the lines of the watermark ledger
\* (a missing ledger counted as an empty one), the backups, the temporary
\* file, the lock file and the output files stay as they are.
C22_DryRunWritesNothing ==
    [][(proc[1].dry_run /\ proc[1].pc \notin Stopped) =>
          UNCHANGED <<ledger.lines, backups, temp, lockFile, outFiles>>]_vars

\* ---------------------------------------------------------------- C23, C24
\* The step is a call of release_lock by a process that does not hold the
\* lock.
ReleaseWhenNotHeld ==
    /\ lcall'.n = lcall.n + 1 /\ lcall'.op = "release_lock"
    /\ lcall'.p \notin held

\* C23: release_lock called when this process does not hold the lock, a
\* second call in a row included, raises nothing and changes nothing: no
\* lock is dropped and no lock file is removed.
C23_ReleaseIdempotent ==
    [][ReleaseWhenNotHeld =>
          /\ lcall'.ret.value = "None"
          /\ UNCHANGED <<lock_path, held>>]_vars

\* C24: acquire_lock returns at once; it returns False when another process
\* holds the lock and when the lock file cannot be created, and what the
\* caller gets in the second case differs from what it gets in the first.
C24_FailsClosedDistinct ==
    lcall.op = "acquire_lock" =>
        /\ lcall.cause \in {"busy", "cannot_create"} => lcall.ret.value = "False"
        /\ lcall.cause = "cannot_create" => lcall.ret # Refused

\* ---------------------------------------------------------------- C25
\* The tenant a ledger line belongs to: what stands before its first bar.
KeyOf(line) == SubSeq(line, 1, FindBar(line, 1) - 1)
\* The lines of the other tenants, in file order.
OthersOf(lines, t) == SelectSeq(lines, LAMBDA l : KeyOf(l) # t)

C26_BadLedgerSetAside ==
    [][(proc[1].pc = "init" /\ proc'[1].pc = "enter") =>
          /\ (\E i \in 1..Len(ledger.lines) : ~WellFormed(ledger.lines[i])) =>
                /\ ledger' = EmptyFile
                /\ \E b \in backups' : b.lines = ledger.lines
          /\ ledger'.exists
          /\ \A i \in 1..Len(ledger'.lines) : WellFormed(ledger'.lines[i])]_vars

\* ---------------------------------------------------------------- C28
\* C28: a partition whose query returned and left no valid record has the
\* result status no_data; no file is written for it and the exporter's
\* counters stay as they were.
C28_NoData ==
    [][Len(proc'[1].results) = Len(proc[1].results) + 1 =>
          LET res == proc'[1].results[Len(proc'[1].results)]
              g == [tenant |-> res.tenant, country |-> res.country]
          IN  (res.status # "error" /\ GetInvoicesForGroup(db, proc[1], g) = {}) =>
                  /\ res.status = "no_data"
                  /\ outFiles' = outFiles
                  /\ Stats(proc'[1]) = Stats(proc[1])]_vars

\* A pass has returned in which a partition that has rows in the table, none
\* of them valid and in the window, was reported as no_data.
C28_Witness ==
    /\ PassDone
    /\ \E j \in 1..Len(proc[1].results) :
          /\ proc[1].results[j].status = "no_data"
          /\ RowsOf(db, proc[1].results[j].tenant, proc[1].results[j].country) # {}

\* ---------------------------------------------------------------- C27
\* C27: at most num_threads partitions are being processed at any time, and
\* when the summary is built every partition has been processed once: its
\* call has finished, and one result has been collected for each.
C27_BoundedPool ==
    /\ Cardinality(Running) <= num_threads
    /\ ppc = "done" =>
          /\ Finished = 1..Len(pparts)
          /\ completed_count = Len(pparts)

\* A full export of more partitions than workers has built its summary.
C27_Witness ==
    /\ ppc = "done"
    /\ num_threads >= 2 /\ Len(pparts) > num_threads

\* ---------------------------------------------------------------- C29
\* C29: every event a worker thread has enqueued, log entry or progress
\* tick, was handed to the event loop by the thread-safe scheduling call, and
\* none was put into the loop's queue by the thread itself.
C29_ThreadSafeEnqueue ==
    \A i \in 1..Len(emitted) : EnqueueCall(emitted[i].type) = "call_soon_threadsafe"

\* ---------------------------------------------------------------- C30
\* The partitions whose result has status success.
SuccessParts == {i \in 1..Len(pparts) : ptask[i].status = "success"}

RECURSIVE SumValid(_)
SumValid(parts) ==
    IF parts = {} THEN 0
    ELSE LET i == CHOOSE i \in parts : TRUE
         IN  pparts[i] + SumValid(parts \ {i})

\* C30: at the end of a full export total_invoices is the sum of the valid
\* record counts of the success partitions, and successful_files plus
\* failed_files equals total_invoices.
C30_NoLostUpdates ==
    ppc = "done" =>
        /\ pstats.total_invoices = SumValid(SuccessParts)
        /\ pstats.successful_files + pstats.failed_files = pstats.total_invoices

\* A full export with two workers has ended with two success partitions and
\* a failed file.
C30_Witness ==
    /\ ppc = "done" /\ num_threads >= 2
    /\ Cardinality(SuccessParts) >= 2
    /\ pstats.failed_files >= 1

\* ---------------------------------------------------------------- C31
\* C31: the lower bound of the window an incremental run that is not a dry
\* run uses for a tenant is the boundary the last update recorded for that
\* tenant.
C31_WindowsTile ==
    \A t \in Tenants :
        ( /\ proc[1].pc = "group" /\ ~proc[1].dry_run /\ proc[1].tenant = t
          /\ lastWritten[t] # NeverWritten )
        => proc[1].last_time = Field1(Strip(lastWritten[t]))

\* ---------------------------------------------------------------- C32
\* C32: a request that has taken the request lock releases it in the end,
\* also when the generator it returned is never started.
C32_EventuallyReleased ==
    \A r \in Reqs : (nAcquire[r] > nRelease[r]) ~> (nAcquire[r] = nRelease[r])

\* ---------------------------------------------------------------- C33
\* C33: at most one process at a time holds the export lock: its
\* acquire_lock returned true and it has not called release_lock since.
C33_OneHolder == Cardinality(held) <= 1

\* ---------------------------------------------------------------- C34
\* The boundary time of a ledger line.
BoundaryOf(line) == ParseTime(Field1(Strip(line)))

\* C34: every update of a tenant's watermark records a boundary that is at or
\* after the one recorded before it.
C34_Step ==
    \A t \in Tenants :
        (lastWritten[t] # NeverWritten /\ lastWritten'[t] # lastWritten[t])
        => BoundaryOf(lastWritten'[t]) >= BoundaryOf(lastWritten[t])

C34_WatermarkMonotone == [][C34_Step]_vars

\* ---------------------------------------------------------------- C35
\* C35: once the update calls of all processes have returned, the ledger
\* holds, for every tenant that was updated, the line its last update wrote:
\* no update is lost.
C35_NoLostUpdate ==
    (\A p \in Procs : proc[p].pc = "idle") =>
        \A t \in Tenants :
            lastWritten[t] # NeverWritten =>
                \E i \in 1..Len(ledger.lines) : ledger.lines[i] = lastWritten[t]

\* ---------------------------------------------------------------- C36
\* C36: the format check of init_state_file keeps a ledger that only
\* update_export_time has written: after it, get_last_export_time returns
\* for every tenant the boundary its last update recorded.
C36_Step ==
    (proc[1].pc = "init" /\ proc'[1].pc = "enter") =>
        \A t \in Tenants :
            lastWritten[t] # NeverWritten =>
                GetLastExportTime(ledger', t) = Field1(Strip(lastWritten[t]))

C36_RoundTrip == [][C36_Step]_vars

\* ---------------------------------------------------------------- C37
\* C37: when write_invoice_files has returned, the partition's directory
\* holds as many files as the call reports as processed: records with
\* different issue dates or invoice numbers never share a file.
C37_DistinctFiles ==
    wpc = "returned" => Cardinality(country_dir) = successful_count

\* ---------------------------------------------------------------- C38
\* C38: an interrupt for the id under which a stream that is still receiving
\* has registered finds that stream's client, and a stream that has ended
\* has no entry left in the registry.
C38_RegistryFollowsStreams ==
    /\ \A s \in Streams :
          (stream[s].pc \in {"receiving", "result"} /\ stream[s].session_registered)
              => _sessions[stream[s].registered_as] = s
    /\ \A s \in Streams :
          stream[s].pc = "ended" => \A sid \in Sids : _sessions[sid] # s

\* ---------------------------------------------------------------- C39
\* A switch_config call for a name that is not a configuration, or for a
\* configuration whose auth token is not in the environment, returns false
\* and leaves the current name and the environment as they were.
C39_FailedStep ==
    LET config_name == switch_ret'.config_name
    IN  ( \/ config_name \notin DOMAIN PREDEFINED_CONFIGS
          \/ environ[PREDEFINED_CONFIGS[config_name].auth_token_env] = "" )
        => /\ ~switch_ret'.returned
           /\ _current_config' = _current_config
           /\ environ' = environ

\* C39: a failed switch_config returns false and changes neither the
\* current configuration nor the environment, and at all times exactly one
\* configuration is reported as active.
C39_FailedSwitchKeepsState ==
    /\ [](Cardinality(ReportedActive) = 1)
    /\ [][C39_FailedStep]_vars

\* A switch to a configuration without token has failed while the other
\* configuration was current and applied.
C39_Witness ==
    /\ switch_ret = [config_name |-> "glm", returned |-> FALSE]
    /\ _current_config = "claude-router"
    /\ environ["ANTHROPIC_BASE_URL"] = "http://127.0.0.1:3456"

====
